---- MODULE Spec2Model ----
(***************************************************************************)
(* Stochastic local search for integer arithmetic (sls::arith_base<num_t>, *)
(* instantiated with the overflow-checked integer backend).                *)
(*                                                                         *)
(* The term DAG and the atom store are those that register_term and        *)
(* init_bool_var build for the integer terms                               *)
(*     x, y, p = x*y, q = x*y + 1                                          *)
(* and the atoms                                                           *)
(*     b1: x + y <= 0      b2: x < y      b3: x*y <= 1  (a unit literal)   *)
(* The state is the numeric values, the atoms' cached sums, the Boolean    *)
(* assignment of the context and the tabu bookkeeping.                     *)
(***************************************************************************)
EXTENDS Integers, Sequences, FiniteSets, TLC

VARIABLES value, args_value, assign, m_last_var, m_last_delta,
          num_steps, tabu_until, escaped, last_op

\* the call of a construction or helper function that is being followed: its
\* inputs and, once it has run, what it returned
VARIABLES call

\* the state of the global lookahead search: configuration, counters, weights
\* and scores of the input assertions, and the position in global_search
VARIABLES gs

vars == <<value, args_value, assign, m_last_var, m_last_delta,
          num_steps, tabu_until, escaped, last_op, call, gs>>

(***************************************************************************)
(* Bounds of the model.                                                    *)
(***************************************************************************)
\* largest magnitude the checked integer backend represents (scaled down)
MaxNum == 3
\* var_info::m_range, the admissible window of a value (scaled down)
Range == 3
\* a run is followed until m_stats.m_num_steps reaches MaxSteps
MaxSteps == 1

Nums == (0 - MaxNum) .. MaxNum
Fits(n) == (0 - MaxNum) <= n /\ n <= MaxNum

Abs(n) == IF n < 0 THEN 0 - n ELSE n

(***************************************************************************)
(* The term DAG: m_vars, m_muls, m_adds.                                   *)
(***************************************************************************)
NumVars == 4
Vars == 1 .. NumVars
NoVar == 0

\* m_muls: p = x * y
m_muls == << [m_var |-> 3, m_monomial |-> << <<1, 1>>, <<2, 1>> >>] >>
\* m_adds: q = 1 + 1*p
m_adds == << [m_var |-> 4, m_coeff |-> 1, m_args |-> << <<1, 3>> >>] >>

is_mul(v) == \E i \in DOMAIN m_muls : m_muls[i].m_var = v
is_add(v) == \E i \in DOMAIN m_adds : m_adds[i].m_var = v
get_mul(v) == m_muls[CHOOSE i \in DOMAIN m_muls : m_muls[i].m_var = v]
get_add(v) == m_adds[CHOOSE i \in DOMAIN m_adds : m_adds[i].m_var = v]

\* indices 1..n that satisfy Test, in increasing order
IdxFrom(n, Test(_)) == SelectSeq([i \in 1 .. n |-> i], Test)

InMonomial(v, mon) == \E j \in DOMAIN mon : mon[j][1] = v
InArgs(v, args) == \E j \in DOMAIN args : args[j][2] = v

\* var_info::m_muls and var_info::m_adds: the definitions v occurs in
var_muls_of(v) ==
    LET T(i) == InMonomial(v, m_muls[i].m_monomial) IN IdxFrom(Len(m_muls), T)
var_adds_of(v) ==
    LET T(i) == InArgs(v, m_adds[i].m_args) IN IdxFrom(Len(m_adds), T)
m_vars_muls == [v \in Vars |-> var_muls_of(v)]
m_vars_adds == [v \in Vars |-> var_adds_of(v)]
var_muls(v) == m_vars_muls[v]
var_adds(v) == m_vars_adds[v]

(***************************************************************************)
(* The atom store: m_ineqs, after init_ineq.                               *)
(***************************************************************************)
NumAtoms == 3
Atoms == 1 .. NumAtoms

m_ineqs == <<
    [m_op |-> "LE", m_coeff |-> 0, m_args |-> << <<1, 1>>, <<1, 2>> >>],
    [m_op |-> "LE", m_coeff |-> 1, m_args |-> << <<1, 1>>, <<0 - 1, 2>> >>],
    [m_op |-> "LE", m_coeff |-> 0 - 1, m_args |-> << <<1, 3>> >>] >>

CoeffIn(v, args) == args[CHOOSE j \in DOMAIN args : args[j][2] = v][1]

\* var_info::m_linear_occurs: <<coeff, bv>> for every atom with v among its args
linear_occurs_of(v) ==
    LET T(bv) == InArgs(v, m_ineqs[bv].m_args)
        idx == IdxFrom(NumAtoms, T)
    IN [k \in DOMAIN idx |-> <<CoeffIn(v, m_ineqs[idx[k]].m_args), idx[k]>>]
m_vars_linear_occurs == [v \in Vars |-> linear_occurs_of(v)]
linear_occurs(v) == m_vars_linear_occurs[v]

\* bounds installed by initialize(): x*y <= 1 is a unit, so hi(p) = 1, hi(q) = 2
NoBound == [has |-> FALSE, is_strict |-> FALSE, value |-> 0]
m_lo(v) == NoBound
m_hi(v) ==
    CASE v = 3 -> [has |-> TRUE, is_strict |-> FALSE, value |-> 1]
      [] v = 4 -> [has |-> TRUE, is_strict |-> FALSE, value |-> 2]
      [] OTHER -> NoBound

\* ctx.is_unit(lit): the literals b1 and b3 (positive) are units of the input
is_unit(bv, sgn) == (bv = 1 \/ bv = 3) /\ ~sgn

(***************************************************************************)
(* The numeric backend checked_int64<true>: every operation that leaves    *)
(* the representable interval raises overflow_exception.  Overflow stands  *)
(* for the raised exception and is absorbing.                              *)
(***************************************************************************)
Overflow == 1000 * (MaxNum + 1)

Chk(n) == IF Fits(n) THEN n ELSE Overflow
cadd(a, b) == IF a = Overflow \/ b = Overflow THEN Overflow ELSE Chk(a + b)
csub(a, b) == IF a = Overflow \/ b = Overflow THEN Overflow ELSE Chk(a - b)
cmul(a, b) == IF a = Overflow \/ b = Overflow THEN Overflow ELSE Chk(a * b)
cneg(a) == IF a = Overflow THEN Overflow ELSE Chk(0 - a)

RECURSIVE power_loop(_, _, _)
power_loop(x, r, k) ==
    IF k > 1
    THEN LET odd == k % 2 = 1
             r1 == IF odd THEN cmul(x, r) ELSE r
             k1 == IF odd THEN k - 1 ELSE k
         IN power_loop(cmul(x, x), r1, k1 \div 2)
    ELSE cmul(x, r)

power_of(x, k) == power_loop(x, 1, k)

\* prod = 1; for (w, p) in monomial: prod *= power_of(v == w ? new_value : value(w), p)
RECURSIVE prod_from(_, _, _, _, _, _)
\* a variant that multiplies nothing
prod_from_mut(val, mon, j, prod, v, new_value) == prod

prod_from(val, mon, j, prod, v, new_value) ==
    IF j > Len(mon) THEN prod
    ELSE LET w == mon[j][1]
             b == IF w = v THEN new_value ELSE val[w]
         IN prod_from(val, mon, j + 1, cmul(prod, power_of(b, mon[j][2])), v, new_value)

prod_with(val, mon, v, new_value) == prod_from(val, mon, 1, 1, v, new_value)
prod_of(val, mon) == prod_from(val, mon, 1, 1, NoVar, 0)

\* sum = coeff; for (c, w) in args: sum += c * (v == w ? new_value : value(w))
RECURSIVE sum_from(_, _, _, _, _, _)
\* a variant that adds nothing
sum_from_mut(val, args, j, sum, v, new_value) == sum

sum_from(val, args, j, sum, v, new_value) ==
    IF j > Len(args) THEN sum
    ELSE LET w == args[j][2]
             b == IF w = v THEN new_value ELSE val[w]
         IN sum_from(val, args, j + 1, cadd(sum, cmul(args[j][1], b)), v, new_value)

sum_with(val, coeff, args, v, new_value) == sum_from(val, args, 1, coeff, v, new_value)
sum_of(val, coeff, args) == sum_from(val, args, 1, coeff, NoVar, 0)

(***************************************************************************)
(* Atoms: truth and distance to true.                                      *)
(***************************************************************************)
is_true(op, a) ==
    CASE op = "LE" -> a <= 0
      [] op = "EQ" -> a = 0
      [] OTHER -> a < 0

dtt(sgn, args, ineq) ==
    LET t == cadd(args, ineq.m_coeff) IN
    IF t = Overflow THEN Overflow
    ELSE CASE ineq.m_op = "LE" ->
                IF sgn
                THEN (IF t <= 0 THEN cadd(csub(cneg(ineq.m_coeff), args), 1) ELSE 0)
                ELSE (IF t <= 0 THEN 0 ELSE t)
           [] ineq.m_op = "EQ" ->
                IF sgn
                THEN (IF t = 0 THEN 1 ELSE 0)
                ELSE (IF t = 0 THEN 0 ELSE 1)
           [] OTHER ->
                IF sgn
                THEN (IF t < 0 THEN csub(cneg(ineq.m_coeff), args) ELSE 0)
                ELSE (IF t < 0 THEN 0 ELSE cadd(t, 1))

\* sign(bv): the literal over bv that the context holds true is (bv, sign(bv))
sign(asg, bv) == ~asg[bv]

(***************************************************************************)
(* Range and bounds.                                                       *)
(***************************************************************************)
in_range(v, n) == (0 - Range) < n /\ n < Range

in_bounds(v, n) ==
    LET lo == m_lo(v)
        hi == m_hi(v)
    IN ~(lo.has /\ n < lo.value)
       /\ ~(lo.has /\ lo.is_strict /\ n <= lo.value)
       /\ ~(hi.has /\ n > hi.value)
       /\ ~(hi.has /\ hi.is_strict /\ n >= hi.value)

is_fixed(val, v) ==
    LET lo == m_lo(v)
        hi == m_hi(v)
    IN lo.has /\ hi.has /\ lo.value = hi.value /\ lo.value = val[v]

(***************************************************************************)
(* The value-update engine.  An engine state E is the record of the values,*)
(* the cached sums of the atoms, the Boolean assignment and m_last_var.    *)
(* update returns the state it leaves behind with r = "true", "false", or  *)
(* "throw" when an overflow_exception leaves the function.                 *)
(***************************************************************************)
Res(r, E) == [r |-> r, E |-> E]

\* the loop over vi.m_linear_occurs: cached sums and the atoms to flip
RECURSIVE upd_linear(_, _, _, _, _, _, _)
upd_linear(av, asg, occ, k, old_value, new_value, to_flip) ==
    IF k > Len(occ) THEN [thrown |-> FALSE, args_value |-> av, to_flip |-> to_flip]
    ELSE LET coeff == occ[k][1]
             bv == occ[k][2]
             a == cadd(av[bv], cmul(coeff, csub(new_value, old_value)))
         IN IF a = Overflow
            THEN [thrown |-> TRUE, args_value |-> av, to_flip |-> to_flip]
            ELSE LET av1 == [av EXCEPT ![bv] = a]
                     dtt_new == dtt(sign(asg, bv), a, m_ineqs[bv])
                 IN IF dtt_new = Overflow
                    THEN [thrown |-> TRUE, args_value |-> av1, to_flip |-> to_flip]
                    ELSE upd_linear(av1, asg, occ, k + 1, old_value, new_value,
                                    IF dtt_new # 0 THEN Append(to_flip, bv) ELSE to_flip)

\* for bv in to_flip: if dtt(sign(bv), ineq) != 0 then ctx.flip(bv)
RECURSIVE flip_all(_, _, _, _)
flip_all(av, asg, to_flip, k) ==
    IF k > Len(to_flip) THEN asg
    ELSE LET bv == to_flip[k]
             asg1 == IF dtt(sign(asg, bv), av[bv], m_ineqs[bv]) # 0
                     THEN [asg EXCEPT ![bv] = ~asg[bv]]
                     ELSE asg
         IN flip_all(av, asg1, to_flip, k + 1)

\* the pre-flight loop: some product containing v overflows with the new value
dry_run_overflows(val, v, new_value) ==
    \E k \in DOMAIN var_muls(v) :
        prod_with(val, m_muls[var_muls(v)[k]].m_monomial, v, new_value) = Overflow

RECURSIVE update(_, _, _), upd_muls(_, _, _), upd_adds(_, _, _)

upd_muls(E, idxs, k) ==
    IF k > Len(idxs) THEN Res("true", E)
    ELSE LET md == m_muls[idxs[k]]
             prod == prod_of(E.value, md.m_monomial)
         IN IF prod = Overflow THEN Res("false", E)
            ELSE IF E.value[md.m_var] # prod
            THEN LET u == update(E, md.m_var, prod)
                 IN IF u.r # "true" THEN u ELSE upd_muls(u.E, idxs, k + 1)
            ELSE upd_muls(E, idxs, k + 1)

\* a variant that leaves the sum parents as they are
upd_adds_mut(E, idxs, k) == Res("true", E)

upd_adds(E, idxs, k) ==
    IF k > Len(idxs) THEN Res("true", E)
    ELSE LET ad == m_adds[idxs[k]]
             sum == sum_of(E.value, ad.m_coeff, ad.m_args)
         IN IF sum = Overflow THEN Res("throw", E)
            ELSE LET u == update(E, ad.m_var, sum)
                 IN IF u.r # "true" THEN u ELSE upd_adds(u.E, idxs, k + 1)

\* a variant without the early return and without the checks
update_mut(E, v, new_value) ==
    Res("true", [E EXCEPT !.value[v] = new_value, !.m_last_var = v])

update(E, v, new_value) ==
    LET old_value == E.value[v] IN
    IF old_value = new_value THEN Res("true", E)
    ELSE IF ~in_range(v, new_value) THEN Res("false", E)
    ELSE IF ~in_bounds(v, new_value) /\ in_bounds(v, old_value) THEN Res("false", E)
    ELSE IF dry_run_overflows(E.value, v, new_value) THEN Res("false", E)
    ELSE LET lin == upd_linear(E.args_value, E.assign, linear_occurs(v), 1,
                               old_value, new_value, <<>>)
         IN IF lin.thrown
            THEN Res("throw", [E EXCEPT !.args_value = lin.args_value])
            ELSE LET E1 == [E EXCEPT !.args_value = lin.args_value,
                                     !.value[v] = new_value,
                                     !.m_last_var = v]
                     E2 == [E1 EXCEPT !.assign =
                                flip_all(E1.args_value, E1.assign, lin.to_flip, 1)]
                     rm == upd_muls(E2, var_muls(v), 1)
                 IN IF rm.r # "true" THEN rm
                    ELSE upd_adds(rm.E, var_adds(v), 1)

\* the moments at which update calls ctx.flip: the assignments right after
\* each flip of the loop over to_flip
RECURSIVE flip_views_from(_, _, _, _)
flip_views_from(av, asg, to_flip, k) ==
    IF k > Len(to_flip) THEN {}
    ELSE LET bv == to_flip[k]
         IN IF dtt(sign(asg, bv), av[bv], m_ineqs[bv]) # 0
            THEN \* ctx.flip(bv)
                 UNION { {[assign |-> asg1, bv |-> bv]}
                         \cup flip_views_from(av, asg1, to_flip, k + 1)
                         : asg1 \in {[asg EXCEPT ![bv] = ~asg[bv]]} }
            ELSE flip_views_from(av, asg, to_flip, k + 1)

View(E, v, bv) == [E |-> E, v |-> v, bv |-> bv]

\* what an observer of ctx.flip sees during the loop over to_flip of
\* update(v, new_value): E is the state at the call, E1 the state with the
\* sums of the atoms over v and the value of v stored
local_views(E, E1, v, to_flip) ==
    { View([E1 EXCEPT !.assign = s.assign], v, s.bv)
      : s \in flip_views_from(E1.args_value, E1.assign, to_flip, 1) }

\* every call of ctx.flip during update(v, new_value), the recursive updates
\* of the product and sum parents included
RECURSIVE update_views(_, _, _), muls_views(_, _, _), adds_views(_, _, _)
update_views(E, v, new_value) ==
    LET old_value == E.value[v] IN
    IF old_value = new_value THEN {}
    ELSE IF ~in_range(v, new_value) THEN {}
    ELSE IF ~in_bounds(v, new_value) /\ in_bounds(v, old_value) THEN {}
    ELSE IF dry_run_overflows(E.value, v, new_value) THEN {}
    ELSE UNION {
           IF lin.thrown THEN {}
           ELSE UNION {
                  local_views(E, E1, v, lin.to_flip)
                  \cup UNION {
                         muls_views(E2, var_muls(v), 1)
                         \cup UNION { IF rm.r # "true" THEN {}
                                      ELSE adds_views(rm.E, var_adds(v), 1)
                                      : rm \in {upd_muls(E2, var_muls(v), 1)} }
                         : E2 \in {[E1 EXCEPT !.assign =
                                      flip_all(E1.args_value, E1.assign, lin.to_flip, 1)]} }
                  : E1 \in {[E EXCEPT !.args_value = lin.args_value,
                                      !.value[v] = new_value,
                                      !.m_last_var = v]} }
           : lin \in {upd_linear(E.args_value, E.assign, linear_occurs(v), 1,
                                 old_value, new_value, <<>>)} }

muls_views(E, idxs, k) ==
    IF k > Len(idxs) THEN {}
    ELSE UNION {
           IF prod = Overflow THEN {}
           ELSE IF E.value[m_muls[idxs[k]].m_var] # prod
           THEN update_views(E, m_muls[idxs[k]].m_var, prod)
                \cup UNION { IF u.r # "true" THEN {} ELSE muls_views(u.E, idxs, k + 1)
                             : u \in {update(E, m_muls[idxs[k]].m_var, prod)} }
           ELSE muls_views(E, idxs, k + 1)
           : prod \in {prod_of(E.value, m_muls[idxs[k]].m_monomial)} }

adds_views(E, idxs, k) ==
    IF k > Len(idxs) THEN {}
    ELSE UNION {
           IF sum = Overflow THEN {}
           ELSE update_views(E, m_adds[idxs[k]].m_var, sum)
                \cup UNION { IF u.r # "true" THEN {} ELSE adds_views(u.E, idxs, k + 1)
                             : u \in {update(E, m_adds[idxs[k]].m_var, sum)} }
           : sum \in {sum_of(E.value, m_adds[idxs[k]].m_coeff, m_adds[idxs[k]].m_args)} }

\* value1(v): the value of v's definition under the current values
value1(val, v) ==
    IF is_add(v) THEN sum_of(val, get_add(v).m_coeff, get_add(v).m_args)
    ELSE IF is_mul(v) THEN prod_of(val, get_mul(v).m_monomial)
    ELSE val[v]

(***************************************************************************)
(* Candidate moves: is_permitted_update, add_update, find_linear_moves.    *)
(* A proposal state P holds the engine state, the list m_updates and       *)
(* whether an overflow_exception has been raised.                          *)
(***************************************************************************)
\* the window drawn by apply_update is step + 3 + rand(10)
TabuBase == 3
TabuRand == 10

\* var_info::is_tabu(step, delta): v is banned until its window has passed
is_tabu(E, v, delta) == E.tabu_until[v] > E.num_steps

\* var_info::set_step(step, tabu_step, delta)
set_step(E, v, step, tabu_step, delta) == [E EXCEPT !.tabu_until[v] = tabu_step]

\* div(a, b) of the backend: the quotient with a remainder in 0 .. |b| - 1
div(a, b) ==
    IF a = Overflow \/ b = Overflow \/ b = 0 THEN Overflow
    ELSE IF b > 0 THEN a \div b ELSE 0 - (a \div (0 - b))

\* a / b and a %= b of the integer backend: quotient rounded towards zero and
\* the remainder that goes with it
quot(a, b) ==
    IF (a >= 0) = (b > 0) THEN Abs(a) \div Abs(b) ELSE 0 - (Abs(a) \div Abs(b))
rem(a, b) == a - b * quot(a, b)

\* divide(v, delta, coeff) for an integer variable v
divide(v, delta, coeff) == div(csub(cadd(delta, Abs(coeff)), 1), coeff)

\* divide(v, delta, coeff) for a real variable v: delta / coeff of the backend
divide_real(delta, coeff) ==
    IF delta = Overflow \/ coeff = Overflow \/ coeff = 0 THEN Overflow
    ELSE quot(delta, coeff)

Perm(r, d) == [r |-> r, delta_out |-> d]

\* (hi - lo) / 2 of the backend: the quotient rounded towards zero
half(n) == IF n >= 0 THEN n \div 2 ELSE 0 - ((0 - n) \div 2)

\* the clamp of delta at the lower bound; "none" when the bound is not crossed
clamp_lo(lo, hi, old_value, new_value, delta) ==
    IF lo.has /\ (IF lo.is_strict THEN lo.value >= new_value ELSE lo.value > new_value)
    THEN IF lo.is_strict /\ delta < 0 /\ lo.value <= old_value
         THEN LET eps == IF hi.has /\ hi.value - lo.value <= 1
                         THEN half(hi.value - lo.value) ELSE 1
              IN Perm("true", cadd(csub(lo.value, old_value), eps))
         ELSE IF ~lo.is_strict /\ delta < 0 /\ lo.value < old_value
         THEN Perm("true", csub(lo.value, old_value))
         ELSE Perm("false", delta)
    ELSE Perm("none", delta)

\* the clamp of delta at the upper bound; "none" when the bound is not crossed
clamp_hi(lo, hi, old_value, new_value, delta) ==
    IF hi.has /\ (IF hi.is_strict THEN hi.value <= new_value ELSE hi.value < new_value)
    THEN IF hi.is_strict /\ delta >= 0 /\ hi.value >= old_value
         THEN LET eps == IF lo.has /\ hi.value - lo.value <= 1
                         THEN half(hi.value - lo.value) ELSE 1
              IN Perm("true", csub(csub(hi.value, old_value), eps))
         ELSE IF ~hi.is_strict /\ delta > 0 /\ hi.value > old_value
         THEN Perm("true", csub(hi.value, old_value))
         ELSE Perm("false", delta)
    ELSE Perm("none", delta)

\* the two clamps in turn and the final test delta_out != 0
clamp_delta(lo, hi, old_value, new_value, delta) ==
    LET cl == clamp_lo(lo, hi, old_value, new_value, delta)
        d1 == IF cl.r = "true" THEN cl.delta_out ELSE delta
        ch == clamp_hi(lo, hi, old_value, new_value, d1)
        d2 == IF ch.r = "true" THEN ch.delta_out ELSE d1
    IN IF cl.r = "false" \/ ch.r = "false" THEN Perm("false", delta)
       ELSE IF d2 = Overflow THEN Perm("throw", delta)
       ELSE Perm(IF d2 # 0 THEN "true" ELSE "false", d2)

\* is_permitted_update(v, delta, delta_out)
is_permitted_update(E, use_tabu, v, delta) ==
    LET old_value == E.value[v]
        new_value == cadd(old_value, delta)
    IN IF E.m_last_var = v /\ E.m_last_delta = 0 - delta THEN Perm("false", delta)
       ELSE IF use_tabu /\ is_tabu(E, v, delta) THEN Perm("false", delta)
       ELSE IF new_value = Overflow THEN Perm("throw", delta)
       ELSE IF ~in_range(v, new_value) THEN Perm("false", delta)
       ELSE IF use_tabu /\ ~in_bounds(v, new_value) /\ in_bounds(v, old_value)
       THEN clamp_delta(m_lo(v), m_hi(v), old_value, new_value, delta)
       ELSE Perm(IF delta # 0 THEN "true" ELSE "false", delta)

Prop(E, upd, thrown) == [E |-> E, upd |-> upd, thrown |-> thrown]

\* add_update(v, delta); delta = Overflow: the caller's arithmetic has thrown
add_update(P, use_tabu, v, delta) ==
    IF P.thrown THEN P
    ELSE IF delta = Overflow THEN [P EXCEPT !.thrown = TRUE]
    ELSE LET pu == is_permitted_update(P.E, use_tabu, v, delta)
         IN IF pu.r = "throw" THEN [P EXCEPT !.thrown = TRUE]
            ELSE IF pu.r = "false" THEN P
            ELSE [P EXCEPT !.upd = Append(P.upd, [v |-> v, delta |-> pu.delta_out])]

\* a variant that takes the quotient rounded towards zero for integers too
linear_moves_mut(is_int, op, sum, coeff) ==
    LET dv(d) == divide_real(d, coeff)
    IN IF is_true(op, sum)
       THEN CASE op = "LE" -> << dv(cadd(cneg(sum), 1)) >>
              [] op = "EQ" -> << 1, 0 - 1 >>
              [] OTHER -> << dv(cneg(sum)) >>
       ELSE CASE op = "LE" -> << cneg(dv(sum)) >>
              [] op = "EQ" ->
                   LET delta == IF sum < 0 THEN dv(Abs(sum)) ELSE cneg(dv(sum))
                       s1 == cadd(sum, cmul(coeff, delta))
                   IN IF s1 = Overflow THEN << Overflow >>
                      ELSE IF s1 = 0 THEN << delta >> ELSE << >>
              [] OTHER -> << cneg(dv(cadd(sum, 1))) >>

\* the deltas find_linear_moves hands to add_update, in order, for an atom
\* with operator op and cached sum, and a variable with coefficient coeff;
\* Overflow: the arithmetic has thrown
linear_moves(is_int, op, sum, coeff) ==
    LET dv(d) == IF is_int THEN divide(1, d, coeff) ELSE divide_real(d, coeff)
    IN IF is_true(op, sum)
       THEN CASE op = "LE" -> << dv(cadd(cneg(sum), 1)) >>
              [] op = "EQ" -> << 1, 0 - 1 >>
              [] OTHER -> << dv(cneg(sum)) >>
       ELSE CASE op = "LE" -> << cneg(dv(sum)) >>
              [] op = "EQ" ->
                   LET delta == IF sum < 0 THEN dv(Abs(sum)) ELSE cneg(dv(sum))
                       s1 == cadd(sum, cmul(coeff, delta))
                   IN IF s1 = Overflow THEN << Overflow >>
                      ELSE IF s1 = 0 THEN << delta >> ELSE << >>
              [] OTHER -> << cneg(dv(cadd(sum, 1))) >>

RECURSIVE add_updates(_, _, _, _, _)
add_updates(P, use_tabu, v, ds, k) ==
    IF k > Len(ds) THEN P
    ELSE \* the value of the k-th add_update is computed once
         CHOOSE r \in { add_updates(Q, use_tabu, v, ds, k + 1)
                          : Q \in { add_update(P, use_tabu, v, ds[k]) } } : TRUE

\* find_linear_moves(ineq, v, coeff) for an integer variable v
find_linear_moves(P, use_tabu, bv, v, coeff) ==
    add_updates(P, use_tabu, v,
                linear_moves(TRUE, m_ineqs[bv].m_op, P.E.args_value[bv], coeff), 1)

(***************************************************************************)
(* Scoring and selection: compute_score, apply_update.                     *)
(***************************************************************************)
\* compute_score(x, delta): 0 when the move breaks the atom of a unit literal
\* under tabu; otherwise positive: 1 for result < 0, 2 for result = 0 and
\* 3 + breaks for m_prob_break[breaks]; Overflow when dtt has thrown
RECURSIVE compute_score_from(_, _, _, _, _, _, _)
compute_score_from(E, use_tabu, occ, k, delta, result, breaks) ==
    IF k > Len(occ)
    THEN IF result < 0 THEN 1 ELSE IF result = 0 THEN 2 ELSE 3 + breaks
    ELSE LET coeff == occ[k][1]
             bv == occ[k][2]
             old_sign == sign(E.assign, bv)
             dtt_old == dtt(old_sign, E.args_value[bv], m_ineqs[bv])
             dtt_new == dtt(old_sign, cadd(E.args_value[bv], cmul(coeff, delta)),
                            m_ineqs[bv])
         IN IF dtt_old = Overflow \/ dtt_new = Overflow THEN Overflow
            ELSE IF dtt_new # 0 /\ dtt_old = 0
            THEN IF use_tabu /\ is_unit(bv, old_sign) THEN 0
                 ELSE compute_score_from(E, use_tabu, occ, k + 1, delta,
                                         result - 1, breaks + 1)
            ELSE compute_score_from(E, use_tabu, occ, k + 1, delta,
                                    IF dtt_new = 0 /\ dtt_old # 0
                                    THEN result + 1 ELSE result, breaks)

compute_score(E, use_tabu, x, delta) ==
    compute_score_from(E, use_tabu, linear_occurs(x), 1, delta, 0, 0)

\* m_updates[i] = m_updates.back(); m_updates.pop_back()
swap_remove(upd, i) ==
    LET n == Len(upd)
    IN [j \in 1 .. n - 1 |-> IF j = i THEN upd[n] ELSE upd[j]]

\* the roulette walks from the back and stops at the first entry that takes
\* lim below 0, or at the front entry: an entry can be drawn when its score
\* is positive or when it is the front entry
can_draw(upd, i) == upd[i].score > 0 \/ i = 1

Out(r, E, v, delta) == [r |-> r, E |-> E, v |-> v, delta |-> delta]

\* a variant that draws the window from the step before the increment
commit_mut(E, v, delta) ==
    LET E1 == [E EXCEPT !.m_last_delta = delta, !.num_steps = E.num_steps + 1]
    IN { Out("true",
             set_step(E1, v, E.num_steps, E.num_steps + TabuBase + r, delta),
             v, delta) : r \in {0, TabuRand - 1} }

\* the commit of apply_update, for every draw of the tabu window
commit(E, v, delta) ==
    LET E1 == [E EXCEPT !.m_last_delta = delta, !.num_steps = E.num_steps + 1]
    IN { Out("true",
             set_step(E1, v, E1.num_steps, E1.num_steps + TabuBase + r, delta),
             v, delta) : r \in {0, TabuRand - 1} }

\* the selection loop of apply_update: the set of its possible outcomes
RECURSIVE apply_loop(_, _)
apply_loop(E, upd) ==
    IF Len(upd) = 0 THEN { Out("false", E, NoVar, 0) }
    ELSE UNION { LET v == upd[i].v
                     delta == upd[i].delta
                     new_value == cadd(E.value[v], delta)
                 IN IF new_value = Overflow THEN { Out("throw", E, v, delta) }
                    ELSE LET u == update(E, v, new_value)
                         IN IF u.r = "true" THEN commit(u.E, v, delta)
                            ELSE IF u.r = "throw" THEN { Out("throw", u.E, v, delta) }
                            ELSE apply_loop(u.E, swap_remove(upd, i))
               : i \in { j \in DOMAIN upd : can_draw(upd, j) } }

\* apply_update() on the candidates of P
apply_update(P, use_tabu) ==
    IF P.thrown THEN { Out("throw", P.E, NoVar, 0) }
    ELSE LET scored == [i \in DOMAIN P.upd |->
                           [v |-> P.upd[i].v, delta |-> P.upd[i].delta,
                            score |-> compute_score(P.E, use_tabu, P.upd[i].v,
                                                    P.upd[i].delta)]]
         IN IF \E i \in DOMAIN scored : scored[i].score = Overflow
            THEN { Out("throw", P.E, NoVar, 0) }
            ELSE apply_loop(P.E, scored)

(***************************************************************************)
(* Local repair of a literal: find_nl_moves, find_reset_moves, repair.     *)
(***************************************************************************)
\* ineq::m_nonlinear after init_ineq: per factor variable x, the entries
\* (v, coeff, p) of the arguments v in which x occurs with power p
nonlinear_of(bv) ==
    LET args == m_ineqs[bv].m_args
        Entries(x) ==
            LET T(j) == IF is_mul(args[j][2])
                        THEN InMonomial(x, get_mul(args[j][2]).m_monomial)
                        ELSE args[j][2] = x
                js == IdxFrom(Len(args), T)
            PowIn(v) == IF is_mul(v)
                        THEN LET mon == get_mul(v).m_monomial
                             IN mon[CHOOSE j \in DOMAIN mon : mon[j][1] = x][2]
                        ELSE 1
            IN [k \in DOMAIN js |->
                  [v |-> args[js[k]][2], coeff |-> args[js[k]][1],
                   p |-> PowIn(args[js[k]][2])]]
        T2(x) == Len(Entries(x)) > 0
        xs == IdxFrom(NumVars, T2)
    IN [k \in DOMAIN xs |-> [x |-> xs[k], nl |-> Entries(xs[k])]]
m_nonlinear == [bv \in Atoms |-> nonlinear_of(bv)]

\* mul_value_without(m, x): the product m without its factor x
RECURSIVE mul_value_without_from(_, _, _, _, _)
mul_value_without_from(val, mon, j, x, r) ==
    IF j > Len(mon) THEN r
    ELSE mul_value_without_from(val, mon, j + 1, x,
             IF mon[j][1] # x THEN cmul(r, power_of(val[mon[j][1]], mon[j][2])) ELSE r)

mul_value_without(val, m, x) == mul_value_without_from(val, get_mul(m).m_monomial, 1, x, 1)

\* the loop of is_linear: "no" on a power above 1, else the sum b
RECURSIVE is_linear_from(_, _, _, _, _)
is_linear_from(val, x, nl, j, b) ==
    IF j > Len(nl) THEN [ok |-> TRUE, b |-> b]
    ELSE IF nl[j].p > 1 THEN [ok |-> FALSE, b |-> b]
    ELSE is_linear_from(val, x, nl, j + 1,
             IF x = nl[j].v THEN cadd(b, nl[j].coeff)
             ELSE cadd(b, cmul(nl[j].coeff, mul_value_without(val, nl[j].v, x))))

\* is_linear(x, nl, b): r is the result, b = Overflow when it has thrown
is_linear(val, x, nl) ==
    IF Len(nl) = 1 /\ nl[1].v = x THEN [r |-> TRUE, b |-> nl[1].coeff]
    ELSE LET l == is_linear_from(val, x, nl, 1, 0)
         IN [r |-> l.ok /\ l.b # 0, b |-> l.b]

\* is_quadratic(x, nl, a, b): every entry here has power 1, so a = 0 and b is
\* the sum that is_linear has found to be 0
is_quadratic(val, x, nl) ==
    LET l == is_linear_from(val, x, nl, 1, 0)
    IN [r |-> l.ok /\ l.b # 0, a |-> 0, b |-> l.b]

\* the loop of find_nl_moves over ineq->m_nonlinear
RECURSIVE find_nl_from(_, _, _, _)
find_nl_from(P, use_tabu, bv, k) ==
    IF k > Len(m_nonlinear[bv]) \/ P.thrown THEN P
    ELSE LET x == m_nonlinear[bv][k].x
             nl == m_nonlinear[bv][k].nl
             lin == is_linear(P.E.value, x, nl)
         IN IF is_fixed(P.E.value, x) THEN find_nl_from(P, use_tabu, bv, k + 1)
            ELSE IF lin.b = Overflow THEN [P EXCEPT !.thrown = TRUE]
            ELSE IF lin.r
            THEN find_nl_from(find_linear_moves(P, use_tabu, bv, x, lin.b),
                              use_tabu, bv, k + 1)
            ELSE find_nl_from(P, use_tabu, bv, k + 1)

\* find_nl_moves(lit)
find_nl_moves(E, use_tabu, bv) ==
    apply_update(find_nl_from(Prop(E, <<>>, FALSE), use_tabu, bv, 1), use_tabu)

\* the draws of add_reset_update: rand(5), rand(2), rand(3)
Draws == [r5 : 0 .. 4, r2 : 0 .. 1, r3 : 0 .. 2]

\* add_reset_update(x), d the draws of the call
RECURSIVE add_reset_update(_, _, _, _), add_reset_seq(_, _, _, _, _)
add_reset_seq(P, use_tabu, ws, j, d) ==
    IF j > Len(ws) THEN P
    ELSE add_reset_seq(add_reset_update(P, use_tabu, ws[j], d), use_tabu, ws, j + 1, d)

add_reset_update(P0, use_tabu, x, d) ==
    LET P1 == [P0 EXCEPT !.E.m_last_delta = 0] IN
    IF P1.thrown \/ is_fixed(P1.E.value, x) THEN P1
    ELSE LET P2 == IF is_mul(x)
                   THEN add_reset_seq(P1, use_tabu,
                            [j \in DOMAIN get_mul(x).m_monomial |->
                                get_mul(x).m_monomial[j][1]], 1, d)
                   ELSE P1
             P3 == IF is_add(x)
                   THEN add_reset_seq(P2, use_tabu,
                            [j \in DOMAIN get_add(x).m_args |->
                                get_add(x).m_args[j][2]], 1, d)
                   ELSE P2
             lo == m_lo(x)
             hi == m_hi(x)
             n0 == d.r5 - 2
             new_value == IF lo.has /\ lo.value > n0 THEN cadd(lo.value, d.r2)
                          ELSE IF hi.has /\ hi.value < n0 THEN csub(hi.value, d.r2)
                          ELSE n0
             val == P3.E.value[x]
         IN IF new_value = Overflow THEN [P3 EXCEPT !.thrown = TRUE]
            ELSE IF new_value # val
            THEN add_update(P3, use_tabu, x, cadd(csub(new_value, val), d.r3 - 1))
            ELSE LET P4 == add_update(P3, use_tabu, x, csub(1, val))
                     P5 == add_update(P4, use_tabu, x, csub(0 - 1, val))
                 IN IF val # 0
                    THEN add_update(add_update(P5, use_tabu, x, 1), use_tabu, x, 0 - 1)
                    ELSE P5

\* find_reset_moves(lit)
find_reset_moves(E, use_tabu, bv, d) ==
    apply_update(
        add_reset_seq(Prop(E, <<>>, FALSE), use_tabu,
                      [k \in DOMAIN m_nonlinear[bv] |-> m_nonlinear[bv][k].x], 1, d),
        use_tabu)

\* an outcome of repair and the attempt that has produced it
Staged(o, stage) ==
    [r |-> o.r, E |-> o.E, v |-> o.v, delta |-> o.delta, stage |-> stage]

\* the reset moves without tabu, for every draw of add_reset_update
reset_stage(E, bv) ==
    UNION { { Staged(o, "reset") : o \in find_reset_moves(E, FALSE, bv, d) }
            : d \in Draws }

\* a variant that tries find_nl_moves again without tabu before the reset
repair_mut(E, bv) ==
    UNION { IF o.r = "false"
            THEN UNION { IF o2.r = "false" THEN reset_stage(o2.E, bv)
                         ELSE { Staged(o2, "nl") }
                         : o2 \in find_nl_moves(o.E, FALSE, bv) }
            ELSE { Staged(o, "nl") }
            : o \in find_nl_moves(E, TRUE, bv) }

\* repair(lit): find_nl_moves under tabu, then the reset moves without tabu
\* (the second find_nl_moves and find_lin_moves sit behind `false &&`)
repair(E, bv) ==
    UNION { IF o.r = "false" THEN reset_stage(o.E, bv) ELSE { Staged(o, "nl") }
            : o \in find_nl_moves(E, TRUE, bv) }

(***************************************************************************)
(* The state of the engine and of the context.                             *)
(***************************************************************************)
Eng == [value |-> value, args_value |-> args_value, assign |-> assign,
        m_last_var |-> m_last_var, m_last_delta |-> m_last_delta,
        num_steps |-> num_steps, tabu_until |-> tabu_until]

SetEng(E) ==
    /\ value' = E.value
    /\ args_value' = E.args_value
    /\ assign' = E.assign
    /\ m_last_var' = E.m_last_var

\* the last public operation: its name, its target, whether the value it asked
\* for was the current one, and how it returned
Op(op, v, same, r) == [op |-> op, v |-> v, same |-> same, r |-> r]

\* no construction or helper call is being followed
NoCall == [fn |-> "none"]
\* global_search is not in use
NoSearch == [pc |-> "off"]

InitValue == [v \in Vars |-> IF v = 4 THEN 1 ELSE 0]
InitArgs == [bv \in Atoms |-> sum_of(InitValue, m_ineqs[bv].m_coeff, m_ineqs[bv].m_args)]

Init ==
    /\ value = InitValue
    /\ args_value = InitArgs
    /\ assign = [bv \in Atoms |-> is_true(m_ineqs[bv].m_op, InitArgs[bv])]
    /\ m_last_var = NoVar
    /\ m_last_delta = 0
    /\ num_steps = 0
    /\ tabu_until = [v \in Vars |-> 0]
    /\ escaped = FALSE
    /\ last_op = Op("init", NoVar, FALSE, "true")
    /\ call = NoCall
    /\ gs = NoSearch

\* the engine is called as long as no exception has left it and the step
\* budget is not used up
Running == ~escaped /\ num_steps < MaxSteps

\* set_value(e, n): n = Overflow is a numeral the backend cannot represent
SetValue(w, n) ==
    /\ Running
    /\ IF n = Overflow
       THEN /\ UNCHANGED <<value, args_value, assign, m_last_var, escaped>>
            /\ last_op' = Op("set_value", w, FALSE, "false")
       ELSE IF n = value[w]
       THEN /\ UNCHANGED <<value, args_value, assign, m_last_var, escaped>>
            /\ last_op' = Op("set_value", w, TRUE, "true")
       ELSE LET u == update(Eng, w, n)
            IN /\ SetEng(u.E)
               /\ escaped' = (u.r = "throw")
               /\ last_op' = Op("set_value", w, FALSE, u.r)
    /\ UNCHANGED <<m_last_delta, num_steps, tabu_until, call, gs>>

\* repair_up(e) for a numeric term e with a definition
RepairUp(v) ==
    /\ Running
    /\ is_add(v) \/ is_mul(v)
    /\ LET new_value == value1(value, v)
       IN IF new_value = Overflow
          THEN /\ UNCHANGED <<value, args_value, assign, m_last_var>>
               /\ escaped' = TRUE
               /\ last_op' = Op("repair_up", v, FALSE, "throw")
          ELSE LET u == update(Eng, v, new_value)
               IN /\ SetEng(u.E)
                  /\ escaped' = (u.r = "throw")
                  /\ last_op' = Op("repair_up", v, new_value = value[v], u.r)
    /\ UNCHANGED <<m_last_delta, num_steps, tabu_until, call, gs>>

\* repair_literal(lit) = init_bool_var_assignment(lit.var())
RepairLiteral(bv) ==
    /\ Running
    /\ assign' = IF is_true(m_ineqs[bv].m_op, args_value[bv]) # assign[bv]
                 THEN [assign EXCEPT ![bv] = ~assign[bv]]
                 ELSE assign
    /\ last_op' = Op("repair_literal", bv, FALSE, "true")
    /\ UNCHANGED <<value, args_value, m_last_var, m_last_delta, num_steps,
                   tabu_until, escaped, call, gs>>

\* propagate_literal(lit) for the literal over bv that the context holds true:
\* repair(lit) runs when the atom disagrees with the assignment
PropagateLiteral(bv) ==
    /\ Running
    /\ is_true(m_ineqs[bv].m_op, args_value[bv]) # assign[bv]
    /\ \E o \in repair(Eng, bv) :
          /\ SetEng(o.E)
          /\ m_last_delta' = o.E.m_last_delta
          /\ num_steps' = o.E.num_steps
          /\ tabu_until' = o.E.tabu_until
          /\ escaped' = (o.r = "throw")
          /\ last_op' = Op("repair", o.v, FALSE, o.r)
    /\ UNCHANGED <<call, gs>>

Next ==
    \/ \E bv \in Atoms : PropagateLiteral(bv)
    \/ \E w \in Vars, n \in Nums \cup {Overflow} : SetValue(w, n)
    \/ \E v \in Vars : RepairUp(v)
    \/ \E bv \in Atoms : RepairLiteral(bv)

Spec == Init /\ [][Next]_vars

(***************************************************************************)
(* Repair after earlier moves: the engine starts from a state with at most *)
(* one committed move behind it, so that the ban window of the moved       *)
(* variable and the last move are in force, and repairs literals.          *)
(***************************************************************************)
\* the steps of the repairs are capped
MaxRepairSteps == 2

\* the last committed move: none, or variable v moved by d at step 1 with
\* the ban window 1 + 3 + w
NoMove == [v |-> NoVar, d |-> 0, w |-> 0]
Moves == {NoMove} \cup [v : 1 .. 2, d : {0 - 1, 1}, w : {0, TabuRand - 1}]

\* the two variables start with values in -MaxStart .. MaxStart
MaxStart == 2
Starts == (0 - MaxStart) .. MaxStart

\* the values of the terms x, y, p = x * y and q = 1 + p
TermValue(x, y) == [v \in Vars |-> CASE v = 1 -> x [] v = 2 -> y [] v = 3 -> x * y
                                     [] OTHER -> 1 + x * y]

InitRepair ==
    /\ \E x \in Starts, y \in Starts :
          /\ \A v \in Vars : Fits(TermValue(x, y)[v]) /\ in_bounds(v, TermValue(x, y)[v])
          /\ value = TermValue(x, y)
          /\ args_value = [bv \in Atoms |->
                 sum_of(TermValue(x, y), m_ineqs[bv].m_coeff, m_ineqs[bv].m_args)]
          /\ \A bv \in Atoms : args_value[bv] # Overflow
    /\ assign \in [Atoms -> BOOLEAN]
    /\ \E m \in Moves :
          /\ m_last_var = m.v
          /\ m_last_delta = m.d
          /\ num_steps = IF m.v = NoVar THEN 0 ELSE 1
          /\ tabu_until = [v \in Vars |-> IF v = m.v THEN 1 + TabuBase + m.w ELSE 0]
    /\ escaped = FALSE
    /\ last_op = Op("init", NoVar, FALSE, "true")
    /\ call = NoCall
    /\ gs = NoSearch

\* propagate_literal(lit) calling repair(lit): the outcome, the attempt that
\* produced it, and the step counter and last_delta it started from
Repair(bv) ==
    /\ ~escaped /\ num_steps < MaxRepairSteps
    /\ is_true(m_ineqs[bv].m_op, args_value[bv]) # assign[bv]
    /\ \E o \in repair(Eng, bv) :
          /\ SetEng(o.E)
          /\ m_last_delta' = o.E.m_last_delta
          /\ num_steps' = o.E.num_steps
          /\ tabu_until' = o.E.tabu_until
          /\ escaped' = (o.r = "throw")
          /\ last_op' = [op |-> "repair", v |-> o.v, same |-> FALSE, r |-> o.r,
                         stage |-> o.stage, delta |-> o.delta, bv |-> bv]
    /\ UNCHANGED <<call, gs>>

NextRepair == \E bv \in Atoms : Repair(bv)

SpecRepair == InitRepair /\ [][NextRepair]_vars

(***************************************************************************)
(* Exact (unbounded) evaluation, used to state the properties.             *)
(***************************************************************************)
RECURSIVE lin_exact(_, _, _)
lin_exact(val, args, j) ==
    IF j > Len(args) THEN 0 ELSE args[j][1] * val[args[j][2]] + lin_exact(val, args, j + 1)

RECURSIVE pow_exact(_, _)
pow_exact(x, k) == IF k = 0 THEN 1 ELSE x * pow_exact(x, k - 1)

RECURSIVE mon_exact(_, _, _)
mon_exact(val, mon, j) ==
    IF j > Len(mon) THEN 1 ELSE pow_exact(val[mon[j][1]], mon[j][2]) * mon_exact(val, mon, j + 1)

AtomSum(val, bv) == m_ineqs[bv].m_coeff + lin_exact(val, m_ineqs[bv].m_args, 1)
SumDef(val, v) == get_add(v).m_coeff + lin_exact(val, get_add(v).m_args, 1)
ProdDef(val, v) == mon_exact(val, get_mul(v).m_monomial, 1)

\* C1: every atom's cached args_value equals coeff + sum of c_i * value(arg_i),
\* in every reachable state, also after an update that returned false or aborted
C1_ArgsValueCached == \A bv \in Atoms : args_value[bv] = AtomSum(value, bv)

\* C3: dtt(sign, A) = 0 exactly when A.is_true() differs from sign
\* (stated for the cases in which dtt returns a number)
C3_DttZeroIffSatisfied ==
    \A bv \in Atoms : \A sgn \in BOOLEAN :
        dtt(sgn, args_value[bv], m_ineqs[bv]) # Overflow =>
            ((dtt(sgn, args_value[bv], m_ineqs[bv]) = 0)
                <=> (is_true(m_ineqs[bv].m_op, args_value[bv]) # sgn))

\* C2: init_bool_var_assignment has run for every Boolean variable (it has in
\* the initial state), and no call has aborted: every atom has
\* dtt(sign(bv), A) = 0, which is what check_ineqs verifies
C2_AssignmentMatchesDtt ==
    ~escaped =>
        \A bv \in Atoms : dtt(sign(assign, bv), args_value[bv], m_ineqs[bv]) = 0

UpdateOps == {"set_value", "repair_up"}

\* C4: an update that returns false leaves every value, every cached sum and
\* the Boolean assignment as they were before the call
C4_FailedUpdateChangesNothing ==
    [][(last_op'.op \in UpdateOps /\ last_op'.r = "false")
         => (value' = value /\ args_value' = args_value /\ assign' = assign)]_vars

\* the nodes with v as a direct argument, and those that depend on v
Parents(v) ==
    {m_muls[var_muls(v)[k]].m_var : k \in DOMAIN var_muls(v)}
        \cup {m_adds[var_adds(v)[k]].m_var : k \in DOMAIN var_adds(v)}

RECURSIVE Depends(_, _)
Depends(u, v) == u \in Parents(v) \/ \E w \in Parents(v) : Depends(u, w)

Def(val, u) == IF is_add(u) THEN SumDef(val, u) ELSE ProdDef(val, u)

\* the last operation called update(last_op.v, n) and update returned true
UpdateReturnedTrue ==
    /\ last_op.r = "true"
    /\ \/ last_op.op = "set_value" /\ ~last_op.same
       \/ last_op.op = "repair_up"
       \/ last_op.op = "repair"

C8_NoOverflowEscapes == ~escaped


C9_ReverseMoveRejected ==
    (last_op.op = "repair" /\ last_op.r = "true") =>
        \A use_tabu \in BOOLEAN :
            is_permitted_update(Eng, use_tabu, last_op.v, 0 - m_last_delta).r = "false"

\* C10: update(v, value(v)), as repair_up issues it when the definition of v
\* already evaluates to value(v), returns true and changes no value, no cached
\* sum, no Boolean assignment, neither m_last_var nor the step counter
C10_SameValueUpdateIsNoOp ==
    [][(last_op'.op = "repair_up" /\ last_op'.same)
         => /\ last_op'.r = "true"
            /\ UNCHANGED <<value, args_value, assign, m_last_var, m_last_delta,
                           num_steps, tabu_until>>]_vars

\* C10 witness: such a repair_up has returned while another variable was the
\* last one updated
C10_Witness ==
    /\ last_op.op = "repair_up" /\ last_op.same /\ last_op.r = "true"
    /\ m_last_var # NoVar /\ m_last_var # last_op.v


(***************************************************************************)
(* Construction of atoms: init_bool_var, add_args and init_ineq, followed  *)
(* on atoms over the expressions x, y, 1 and the sums of two of them.      *)
(***************************************************************************)
\* the two variables of the atoms take values in -MaxVal .. MaxVal
MaxVal == 1
Vals == (0 - MaxVal) .. MaxVal

EVar(v) == [k |-> "var", v |-> v]
ENum(n) == [k |-> "num", n |-> n]
EAdd(l, r) == [k |-> "add", l |-> l, r |-> r]
Leaves == {EVar(1), EVar(2), ENum(1)}
Exprs == Leaves \cup {EAdd(l, r) : l \in Leaves, r \in Leaves}

\* an atom `l kind r` over integer or real terms
AtomKinds == {"le", "ge", "lt", "gt", "eq"}
AtomExprs == [kind : AtomKinds, is_int : BOOLEAN, l : Exprs, r : Exprs]

new_ineq(op, coeff) ==
    [m_op |-> op, m_coeff |-> coeff, m_args |-> <<>>, m_args_value |-> 0]

add_arg(term, c, v) ==
    IF c # 0 THEN [term EXCEPT !.m_args = Append(@, <<c, v>>)] ELSE term

\* add_args on a numeral, a sum, and a term that is a variable
RECURSIVE add_args(_, _, _)
add_args(term, e, coeff) ==
    IF e.k = "num" THEN [term EXCEPT !.m_coeff = @ + coeff * e.n]
    ELSE IF e.k = "add" THEN add_args(add_args(term, e.l, coeff), e.r, coeff)
    ELSE add_arg(term, coeff, e.v)

\* std::stable_sort of the args by variable: insertion keeps the order of
\* entries over the same variable
RECURSIVE insert_arg(_, _, _)
insert_arg(sorted, a, j) ==
    IF j > Len(sorted) THEN Append(sorted, a)
    ELSE IF a[2] < sorted[j][2]
         THEN SubSeq(sorted, 1, j - 1) \o <<a>> \o SubSeq(sorted, j, Len(sorted))
         ELSE insert_arg(sorted, a, j + 1)

RECURSIVE stable_sort_args(_, _, _)
stable_sort_args(args, j, sorted) ==
    IF j > Len(args) THEN sorted
    ELSE stable_sort_args(args, j + 1, insert_arg(sorted, args[j], 1))

\* the loop that is to make the variables unique: j runs over the entries,
\* k is the write position (both 0-based as in the source)
RECURSIVE fold_args(_, _, _)
fold_args(args, j, k) ==
    IF j >= Len(args) THEN SubSeq(args, 1, k)
    ELSE IF j > k /\ args[k + 1][2] = args[j + 1][2]
         THEN fold_args([args EXCEPT ![k + 1] = <<@[1] + args[j + 1][1], @[2]>>], j + 1, k)
         ELSE fold_args([args EXCEPT ![k + 1] = args[j + 1]], j + 1, k + 1)

\* init_ineq: the args made unique, and m_args_value = m_coeff + sum c * value
init_ineq(val, i) ==
    LET args == fold_args(stable_sort_args(i.m_args, 1, <<>>), 0, 0)
    IN [i EXCEPT !.m_args = args,
                 !.m_args_value = i.m_coeff + lin_exact(val, args, 1)]

init_bool_var_mut(val, e) ==
    LET x == IF e.kind \in {"ge", "gt"} THEN e.r ELSE e.l
        y == IF e.kind \in {"ge", "gt"} THEN e.l ELSE e.r
        op == IF e.kind = "eq" THEN "EQ" ELSE "LE"
    IN init_ineq(val, add_args(add_args(new_ineq(op, 0), x, 1), y, 0 - 1))

\* init_bool_var: a.is_le(e, x, y) || a.is_ge(e, y, x) and the three branches
\* after it
init_bool_var(val, e) ==
    LET x == IF e.kind \in {"ge", "gt"} THEN e.r ELSE e.l
        y == IF e.kind \in {"ge", "gt"} THEN e.l ELSE e.r
        i == IF e.kind \in {"le", "ge"} THEN new_ineq("LE", 0)
             ELSE IF e.kind \in {"lt", "gt"} /\ e.is_int THEN new_ineq("LE", 1)
             ELSE IF e.kind \in {"lt", "gt"} THEN new_ineq("LT", 0)
             ELSE new_ineq("EQ", 0)
    IN init_ineq(val, add_args(add_args(i, x, 1), y, 0 - 1))

\* update(v, new_value) on a variable without bounds and without parents: the
\* cached sum moves by coeff * (new_value - old_value) once per entry of
\* m_linear_occurs, which init_ineq fills once per entry of the args
RECURSIVE update_linear_occurs(_, _, _, _, _, _)
update_linear_occurs(i, j, v, old_value, new_value, a) ==
    IF j > Len(i.m_args) THEN a
    ELSE update_linear_occurs(i, j + 1, v, old_value, new_value,
             IF i.m_args[j][2] = v
             THEN a + i.m_args[j][1] * (new_value - old_value) ELSE a)

\* the value of an expression and the truth of an atom
RECURSIVE eval(_, _)
eval(val, e) ==
    IF e.k = "num" THEN e.n
    ELSE IF e.k = "add" THEN eval(val, e.l) + eval(val, e.r)
    ELSE val[e.v]

Truth(val, e) ==
    LET l == eval(val, e.l)
        r == eval(val, e.r)
    IN CASE e.kind = "le" -> l <= r
         [] e.kind = "ge" -> l >= r
         [] e.kind = "lt" -> l < r
         [] e.kind = "gt" -> l > r
         [] e.kind = "eq" -> l = r

\* the inputs of init_bool_var: an atom and the values of its variables
AtomCalls ==
    [fn : {"init_bool_var"}, e : AtomExprs, val : [1 .. 2 -> Vals],
     done : {FALSE}, ineq : {new_ineq("LE", 0)}, updates : {0}]

\* init_bool_var(bv) compiles the atom
InitBoolVar ==
    /\ call.fn = "init_bool_var" /\ ~call.done
    /\ call' = [call EXCEPT !.done = TRUE, !.ineq = init_bool_var(call.val, call.e)]

\* a successful update of one of the atom's variables
UpdateVar(v, n) ==
    /\ call.fn = "init_bool_var" /\ call.done
    /\ n # call.val[v]
    /\ call' = [call EXCEPT
                  !.val[v] = n,
                  !.ineq.m_args_value =
                      update_linear_occurs(call.ineq, 1, v, call.val[v], n, @),
                  !.updates = 1]


(***************************************************************************)
(* Integer division helpers and the quadratic proposer, for an integer     *)
(* variable x.                                                             *)
(***************************************************************************)
\* the largest magnitude of the checked backend in the helper calls (scaled
\* down); wadd, wsub and wmul raise Overflow beyond it
MaxInt == 127
Wide(n) == IF Abs(n) <= MaxInt THEN n ELSE Overflow
wadd(a, b) == IF a = Overflow \/ b = Overflow THEN Overflow ELSE Wide(a + b)
wsub(a, b) == IF a = Overflow \/ b = Overflow THEN Overflow ELSE Wide(a - b)
wmul(a, b) == IF a = Overflow \/ b = Overflow THEN Overflow ELSE Wide(a * b)

\* divide_floor(v, a, b) for an integer variable v
\* -n for a result n of div
neg(n) == IF n = Overflow THEN Overflow ELSE 0 - n

divide_floor_mut(v, a, b) ==
    IF b > 0 /\ a >= 0 THEN div(a, b)
    ELSE IF b > 0 THEN neg(div(wsub(wadd(0 - a, b), 1), b))
    ELSE IF a > 0 THEN neg(div(a, 0 - b))
    ELSE div(0 - a, 0 - b)

divide_floor(v, a, b) ==
    IF b > 0 /\ a >= 0 THEN div(a, b)
    ELSE IF b > 0 THEN neg(div(wsub(wadd(0 - a, b), 1), b))
    ELSE IF a > 0 THEN neg(div(wsub(wsub(a, b), 1), 0 - b))
    ELSE div(0 - a, 0 - b)

\* divide_ceil(v, a, b) for an integer variable v
divide_ceil(v, a, b) ==
    IF b > 0 /\ a >= 0 THEN div(wsub(wadd(a, b), 1), b)
    ELSE IF b > 0 THEN neg(div(0 - a, b))
    ELSE IF a > 0 THEN neg(div(a, 0 - b))
    ELSE div(wsub(wsub(0 - a, b), 1), 0 - b)

RECURSIVE sqrt(_)
sqrt(d) ==
    IF d <= 1 THEN d
    ELSE LET sq == 2 * sqrt(div(d, 4)) + 1
         IN IF sq * sq <= d THEN sq ELSE sq - 1

\* a * n^2 + b * n + c
Quad(a, b, c, n) == a * n * n + b * n + c

\* find_quadratic_moves(ineq, x, a, b, sum) for an integer x with value xv:
\* the deltas handed to add_update, in order
find_quadratic_moves(op, x, xv, a, b, sum) ==
    LET c == sum - a * xv * xv - b * xv
        d == b * b - 4 * a * c
        root == sqrt(d)
        is_square == root * root = d
        ll0 == divide_floor(x, (0 - b) - root, 2 * a)
        lh0 == divide_ceil(x, (0 - b) - root, 2 * a)
        rl0 == divide_floor(x, (0 - b) + root, 2 * a)
        rh0 == divide_ceil(x, (0 - b) + root, 2 * a)
        swap == lh0 > rl0
        ll == IF swap THEN rl0 ELSE ll0
        rl == IF swap THEN ll0 ELSE rl0
        lh == IF swap THEN rh0 ELSE lh0
        rh == IF swap THEN lh0 ELSE rh0
        eps == 1
        pos(n) == Quad(a, b, c, n) > 0
        nonpos(n) == Quad(a, b, c, n) <= 0
    IN IF d < 0 THEN <<>>
       ELSE IF d > 0 /\ lh = rh THEN <<>>
       ELSE IF d = 0 /\ ll # lh THEN <<>>
       ELSE IF is_true(op, sum)
       THEN CASE op = "LE" ->
                   IF d = 0 THEN <<>>
                   ELSE IF a < 0
                   THEN << (IF nonpos(lh) THEN lh + eps ELSE lh) - xv,
                           (IF nonpos(rl) THEN rl - eps ELSE rl) - xv >>
                   ELSE << (IF nonpos(ll) THEN ll - eps ELSE ll) - xv,
                           (IF nonpos(rh) THEN rh + eps ELSE rh) - xv >>
              [] op = "LT" ->
                   IF d = 0 THEN <<>>
                   ELSE IF a > 0
                   THEN <<lh - xv + eps>> \o (IF ll # rl THEN <<rh - xv - eps>> ELSE <<>>)
                   ELSE <<ll - xv - eps>> \o (IF ll # rl THEN <<rl - xv + eps>> ELSE <<>>)
              [] op = "EQ" -> <<1 - xv, (0 - 1) - xv>>
       ELSE CASE op = "LE" ->
                   IF d = 0
                   THEN IF a > 0 /\ ll = lh THEN <<ll - xv>> ELSE <<>>
                   ELSE IF a > 0
                   THEN << (IF pos(lh) THEN lh + eps ELSE lh) - xv,
                           (IF pos(rl) THEN rl - eps ELSE rl) - xv >>
                   ELSE << (IF pos(ll) THEN ll + eps ELSE ll) - xv,
                           (IF pos(rh) THEN rh - eps ELSE rh) - xv >>
              [] op = "LT" ->
                   IF d = 0 THEN <<>>
                   ELSE IF a > 0
                   THEN <<lh - xv - eps>> \o (IF ll # rl THEN <<rh - xv + eps>> ELSE <<>>)
                   ELSE <<ll - xv + eps>> \o (IF ll # rl THEN <<rl - xv - eps>> ELSE <<>>)
              [] op = "EQ" ->
                   IF ~is_square THEN <<>>
                   ELSE (IF ll = lh THEN <<ll - xv>> ELSE <<>>)
                          \o (IF rl = rh /\ lh # rh THEN <<rl - xv>> ELSE <<>>)

\* the coefficients a, b, c and the value of x range over -MaxQuad .. MaxQuad
MaxQuad == 3
QuadNums == (0 - MaxQuad) .. MaxQuad

QuadCalls ==
    [fn : {"find_quadratic_moves"}, op : {"LE", "LT", "EQ"},
     a : QuadNums \ {0}, b : QuadNums, c : QuadNums, xv : QuadNums,
     done : {FALSE}, out : {<<>>}]

\* find_nl_moves hands the atom's cached sum to find_quadratic_moves
FindQuadraticMoves ==
    /\ call.fn = "find_quadratic_moves" /\ ~call.done
    /\ call' = [call EXCEPT
                  !.done = TRUE,
                  !.out = find_quadratic_moves(call.op, 1, call.xv, call.a, call.b,
                                               Quad(call.a, call.b, call.c, call.xv))]

(***************************************************************************)
(* The integer k-th root and the calls of the division helpers.            *)
(***************************************************************************)
\* power_of(x, k) on the backend of width MaxInt; r accumulates the odd powers
RECURSIVE power_of_wide(_, _, _)
power_of_wide(x, r, k) ==
    IF k > 1
    THEN IF k % 2 = 1
         THEN power_of_wide(wmul(x, x), wmul(x, r), (k - 1) \div 2)
         ELSE power_of_wide(wmul(x, x), r, k \div 2)
    ELSE wmul(x, r)

\* one Newton step: div(x0 * (k - 1) + div(a, power_of(x0, k - 1)), k)
root_step(k, a, x0) ==
    div(wadd(wmul(x0, k - 1), div(a, power_of_wide(x0, 1, k - 1))), k)

RECURSIVE root_loop_mut(_, _, _, _)
root_loop_mut(k, a, x0, x1) ==
    IF x1 = Overflow THEN Overflow
    ELSE IF x1 < x0 THEN root_loop_mut(k, a, x1, root_step(k, a, x1))
    ELSE x1

\* while (x1 < x0) { x0 = x1; x1 = ... } return x0
RECURSIVE root_loop(_, _, _, _)
root_loop(k, a, x0, x1) ==
    IF x1 = Overflow THEN Overflow
    ELSE IF x1 < x0 THEN root_loop(k, a, x1, root_step(k, a, x1))
    ELSE x0

root_of(k, a) ==
    IF a <= 1 THEN a
    ELSE IF k = 1 THEN a
    ELSE IF a <= k THEN 1
    ELSE root_loop(k, a, div(a, k), root_step(k, a, div(a, k)))

\* the roots taken are the 1st to the MaxRoot-th
MaxRoot == 5
RootCalls ==
    [fn : {"root_of"}, k : 1 .. MaxRoot, a : 0 .. MaxInt, done : {FALSE}, out : {0}]

RootOf ==
    /\ call.fn = "root_of" /\ ~call.done
    /\ call' = [call EXCEPT !.done = TRUE, !.out = root_of(call.k, call.a)]

\* the divisors handed to divide_floor range over -MaxDiv .. MaxDiv, without 0
MaxDiv == 4
DivCalls ==
    [fn : {"divide_floor"}, a : (0 - MaxInt) .. MaxInt,
     b : ((0 - MaxDiv) .. MaxDiv) \ {0}, done : {FALSE}, out : {0}]

DivideFloor ==
    /\ call.fn = "divide_floor" /\ ~call.done
    /\ call' = [call EXCEPT !.done = TRUE, !.out = divide_floor(1, call.a, call.b)]

(***************************************************************************)
(* Operator nodes: mk_op and the evaluation of their definition in value1. *)
(***************************************************************************)
\* mod(a, b) of the backend for b # 0: the remainder in 0 .. |b| - 1
mod(a, b) == a - b * div(a, b)

ArithOps == {"OP_MOD", "OP_REM", "OP_IDIV", "OP_DIV", "OP_ABS"}

\* value1(v) for an operator node with argument values v1 and v2
value1_op(k, v1, v2) ==
    CASE k = "OP_MOD" -> IF v2 = 0 THEN 0 ELSE mod(v1, v2)
      [] k = "OP_DIV" -> IF v2 = 0 THEN 0 ELSE quot(v1, v2)
      [] k = "OP_IDIV" -> IF v2 = 0 THEN 0 ELSE div(v1, v2)
      [] k = "OP_REM" -> IF v2 = 0 THEN 0 ELSE rem(v1, v2)
      [] OTHER -> Abs(v1)

\* mk_op(k, e, x, y): the value the new node v is given; v0 is value(v) of the
\* variable that mk_var has just made, vx and vy the values of the arguments
mk_op(k, v0, vx, vy) ==
    CASE k = "OP_MOD" -> IF vy = 0 THEN 0 ELSE mod(v0, vy)
      [] k = "OP_REM" -> IF vy = 0 THEN 0 ELSE rem(vx, vy)
      [] k = "OP_IDIV" -> IF vy = 0 THEN 0 ELSE div(vx, vy)
      [] k = "OP_DIV" -> IF vy = 0 THEN 0 ELSE quot(vx, vy)
      [] OTHER -> Abs(vx)

\* the argument values at the registration of an operator term; a variable
\* starts with the value 0
MaxOp == 3
OpCalls ==
    [fn : {"mk_op"}, k : ArithOps, v0 : {0}, x : (0 - MaxOp) .. MaxOp,
     y : (0 - MaxOp) .. MaxOp, done : {FALSE}, out : {0}]

MkOp ==
    /\ call.fn = "mk_op" /\ ~call.done
    /\ call' = [call EXCEPT !.done = TRUE,
                            !.out = mk_op(call.k, call.v0, call.x, call.y)]

(***************************************************************************)
(* distinct atoms: repair_distinct over arguments that are variables       *)
(* without bounds and without occurrences in sums, products or atoms.      *)
(***************************************************************************)
\* update(v, new_value) for such a variable: D.val are the values, D.ok is
\* false once an update has been refused
update_leaf(D, v, new_value) ==
    IF new_value = Overflow THEN [D EXCEPT !.ok = FALSE]
    ELSE IF D.val[v] = new_value THEN D
    ELSE IF ~in_range(v, new_value) THEN [D EXCEPT !.ok = FALSE]
    ELSE [D EXCEPT !.val[v] = new_value]

\* the body of the loops of repair_distinct for the pair (i, j)
repair_pair(D, i, j) ==
    IF D.val[i] = D.val[j]
    THEN LET n1 == cadd(D.val[i], 1)
             new_value == IF n1 = D.val[j] THEN cadd(n1, 1) ELSE n1
         IN update_leaf(D, j, new_value)
    ELSE D

\* repair_distinct(e): for i, for j > i
RECURSIVE repair_distinct(_, _, _)
repair_distinct(D, i, j) ==
    IF i > Len(D.val) THEN D
    ELSE IF j > Len(D.val) THEN repair_distinct(D, i + 1, i + 2)
    ELSE repair_distinct(repair_pair(D, i, j), i, j + 1)

\* eval_distinct(e)
eval_distinct(val) ==
    \A i \in DOMAIN val : \A j \in DOMAIN val : i < j => val[i] # val[j]

MaxDistinct == 3
DistinctCalls ==
    [fn : {"repair_distinct"},
     val : UNION { [1 .. n -> 0 .. 2] : n \in 2 .. MaxDistinct },
     done : {FALSE}, ok : {TRUE}, out : {<<>>}]

RepairDistinct ==
    /\ call.fn = "repair_distinct" /\ ~call.done
    /\ \E D \in { repair_distinct([val |-> call.val, ok |-> TRUE], 1, 2) } :
          call' = [call EXCEPT !.done = TRUE, !.ok = D.ok, !.out = D.val]

(***************************************************************************)
(* The linear proposer on its own: one call of find_linear_moves.          *)
(***************************************************************************)
\* the atoms and variables of a call: a strict atom over integers has been
\* compiled to LE, so LT comes with a real variable only
LinCalls ==
    { c \in [fn : {"find_linear_moves"}, is_int : BOOLEAN, op : {"LE", "LT", "EQ"},
             sum : (0 - MaxNum) .. MaxNum, coeff : ((0 - MaxNum) .. MaxNum) \ {0},
             done : {FALSE}, out : {<< >>}] :
        c.is_int => c.op # "LT" }

FindLinearMoves ==
    /\ call.fn = "find_linear_moves" /\ ~call.done
    /\ call' = [call EXCEPT !.done = TRUE,
                            !.out = linear_moves(call.is_int, call.op, call.sum,
                                                 call.coeff)]

(***************************************************************************)
(* init_ineq, second half: the nonlinear list of an atom, built from the   *)
(* args of the atom over the variables x, y and the product p = x * y.     *)
(***************************************************************************)
\* the entries pushed for the argument (coeff, v): one per factor of a
\* product, one for a variable that is no product
nl_entries(coeff, v) ==
    IF is_mul(v)
    THEN LET mon == get_mul(v).m_monomial
         IN [j \in DOMAIN mon |->
                [x |-> mon[j][1],
                 nl |-> << [v |-> v, coeff |-> coeff, p |-> mon[j][2]] >>]]
    ELSE << [x |-> v, nl |-> << [v |-> v, coeff |-> coeff, p |-> 1] >>] >>

RECURSIVE nl_push(_, _, _)
nl_push(args, j, out) ==
    IF j > Len(args) THEN out
    ELSE nl_push(args, j + 1, out \o nl_entries(args[j][1], args[j][2]))

\* std::stable_sort of pairs <<key, item>> by the key: insertion after the
\* entries of an equal key
RECURSIVE insert_by(_, _, _)
insert_by(sorted, a, j) ==
    IF j > Len(sorted) THEN Append(sorted, a)
    ELSE IF a[1] < sorted[j][1]
         THEN SubSeq(sorted, 1, j - 1) \o <<a>> \o SubSeq(sorted, j, Len(sorted))
         ELSE insert_by(sorted, a, j + 1)

RECURSIVE stable_sort_from(_, _, _)
stable_sort_from(xs, j, sorted) ==
    IF j > Len(xs) THEN [k \in DOMAIN sorted |-> sorted[k][2]]
    ELSE stable_sort_from(xs, j + 1, insert_by(sorted, xs[j], 1))

stable_sort_by(xs, key(_)) ==
    stable_sort_from([k \in DOMAIN xs |-> <<key(xs[k]), xs[k]>>], 1, <<>>)

\* the loop "ensure that non-linear terms have a unique summary": j runs
\* over the groups, k is the write position (both 0-based as in the source)
RECURSIVE fold_groups(_, _, _)
fold_groups(gps, j, k) ==
    IF j >= Len(gps) THEN SubSeq(gps, 1, k)
    ELSE IF j > k /\ gps[k + 1].x = gps[j + 1].x
         THEN fold_groups([gps EXCEPT ![k + 1].nl = @ \o gps[j + 1].nl], j + 1, k)
         ELSE fold_groups([gps EXCEPT ![k + 1] = gps[j + 1]], j + 1, k + 1)

\* the loop that combines the entries of one group over the same term
RECURSIVE fold_nl(_, _, _)
fold_nl(nl, j, k) ==
    IF j >= Len(nl) THEN SubSeq(nl, 1, k)
    ELSE IF j > k /\ nl[k + 1].v = nl[j + 1].v
         THEN fold_nl([nl EXCEPT ![k + 1].coeff = @ + nl[j + 1].coeff], j + 1, k)
         ELSE fold_nl([nl EXCEPT ![k + 1] = nl[j + 1]], j + 1, k + 1)

sort_group(gp) ==
    IF Len(gp.nl) = 1 THEN gp
    ELSE [gp EXCEPT !.nl = fold_nl(stable_sort_by(@, LAMBDA e : e.p), 0, 0)]

\* i.m_nonlinear at the end of init_ineq, for the args of the atom
init_nonlinear(args) ==
    LET pushed == nl_push(args, 1, <<>>)
        sorted == stable_sort_by(pushed, LAMBDA gp : gp.x)
        folded == fold_groups(sorted, 0, 0)
    IN [k \in DOMAIN folded |-> sort_group(folded[k])]

\* the inputs of init_ineq: args with unique variables among x, y and p,
\* in the order of the variables, with coefficients -MaxCoeff .. MaxCoeff
MaxCoeff == 2
ArgSeqs ==
    { a \in UNION { [1 .. n -> (((0 - MaxCoeff) .. MaxCoeff) \ {0}) \X (1 .. 3)]
                    : n \in 1 .. 3 } :
        \A j \in 1 .. (Len(a) - 1) : a[j][2] < a[j + 1][2] }
NlCalls ==
    [fn : {"init_ineq"}, args : ArgSeqs, x : Vals, y : Vals,
     done : {FALSE}, out : {<<>>}, lin : {<<>>}]

\* the values of x, y and of the product p = x * y
NlValue(x, y) == [v \in 1 .. 3 |-> CASE v = 1 -> x [] v = 2 -> y [] OTHER -> x * y]

\* init_ineq builds the nonlinear list; find_nl_moves then asks is_linear
\* for every group of the list
InitIneq ==
    /\ call.fn = "init_ineq" /\ ~call.done
    /\ \E gps \in {init_nonlinear(call.args)} :
          call' = [call EXCEPT
                     !.done = TRUE,
                     !.out = gps,
                     !.lin = [k \in DOMAIN gps |->
                                is_linear(NlValue(call.x, call.y), gps[k].x, gps[k].nl)]]

(***************************************************************************)
(* The bounds of one variable: add_le, add_ge, add_lt, add_gt as called by *)
(* initialize_unit, in_bounds on the bounds built, and is_permitted_update *)
(* with tabu on for a value inside them.                                   *)
(***************************************************************************)
Bound(s, n) == [has |-> TRUE, is_strict |-> s, value |-> n]

add_le(b, n) ==
    IF b.hi.has /\ b.hi.value <= n THEN b ELSE [b EXCEPT !.hi = Bound(FALSE, n)]

add_ge(b, n) ==
    IF b.lo.has /\ b.lo.value >= n THEN b ELSE [b EXCEPT !.lo = Bound(FALSE, n)]

\* add_lt without the conversion for integer variables
add_lt_mut(is_int, b, n) == [b EXCEPT !.hi = Bound(TRUE, n)]

add_lt(is_int, b, n) ==
    IF is_int THEN add_le(b, n - 1) ELSE [b EXCEPT !.hi = Bound(TRUE, n)]

add_gt(is_int, b, n) ==
    IF is_int THEN add_ge(b, n + 1) ELSE [b EXCEPT !.lo = Bound(TRUE, n)]

add_bound(kind, is_int, b, n) ==
    CASE kind = "le" -> add_le(b, n)
      [] kind = "ge" -> add_ge(b, n)
      [] kind = "lt" -> add_lt(is_int, b, n)
      [] OTHER -> add_gt(is_int, b, n)

\* in_bounds(v, value) for the bounds b of v
in_bounds_of(b, n) ==
    /\ ~(b.lo.has /\ n < b.lo.value)
    /\ ~(b.lo.has /\ b.lo.is_strict /\ n <= b.lo.value)
    /\ ~(b.hi.has /\ n > b.hi.value)
    /\ ~(b.hi.has /\ b.hi.is_strict /\ n >= b.hi.value)

\* is_permitted_update(v, delta, delta_out) with tabu on, for a variable
\* that is not the last one moved, is not banned and stays in range
permitted_in(b, old_value, delta) ==
    LET new_value == old_value + delta
    IN IF ~in_bounds_of(b, new_value) /\ in_bounds_of(b, old_value)
       THEN clamp_delta(b.lo, b.hi, old_value, new_value, delta)
       ELSE Perm(IF delta # 0 THEN "true" ELSE "false", delta)

\* the loop of initialize over the args of a sum node: I holds lo, hi, the
\* two valid flags and the two strict flags; every arg is c * w for the
\* variable w with the bounds b
RECURSIVE add_interval(_, _, _, _)
add_interval(I, coeffs, j, b) ==
    IF j > Len(coeffs) THEN I
    ELSE IF ~I.lo_valid /\ ~I.hi_valid THEN I
    ELSE LET c == coeffs[j]
             I1 == IF ~I.lo_valid THEN I
                   ELSE IF c > 0 /\ b.lo.has
                   THEN [I EXCEPT !.lo = @ + c * b.lo.value,
                                  !.lo_strict = @ \/ b.lo.is_strict]
                   ELSE IF c < 0 /\ b.hi.has
                   THEN [I EXCEPT !.lo = @ + c * b.hi.value,
                                  !.lo_strict = @ \/ b.hi.is_strict]
                   ELSE [I EXCEPT !.lo_valid = FALSE]
             I2 == IF ~I1.hi_valid THEN I1
                   ELSE IF c > 0 /\ b.hi.has
                   THEN [I1 EXCEPT !.hi = @ + c * b.hi.value,
                                   !.hi_strict = @ \/ b.hi.is_strict]
                   ELSE IF c < 0 /\ b.lo.has
                   THEN [I1 EXCEPT !.hi = @ + c * b.lo.value,
                                   !.hi_strict = @ \/ b.lo.is_strict]
                   ELSE [I1 EXCEPT !.hi_valid = FALSE]
         IN add_interval(I2, coeffs, j + 1, b)

\* initialize for a sum node v = m_coeff + sum of c * w without bounds of its
\* own: the bounds it installs on v
initialize_add(is_int, b, m_coeff, coeffs) ==
    LET I == add_interval([lo |-> m_coeff, hi |-> m_coeff, lo_valid |-> TRUE,
                           hi_valid |-> TRUE, lo_strict |-> FALSE,
                           hi_strict |-> FALSE], coeffs, 1, b)
        b0 == [lo |-> NoBound, hi |-> NoBound]
        b1 == IF ~I.lo_valid THEN b0
              ELSE IF I.lo_strict THEN add_gt(is_int, b0, I.lo)
              ELSE add_ge(b0, I.lo)
    IN IF ~I.hi_valid THEN b1
       ELSE IF I.hi_strict THEN add_lt(is_int, b1, I.hi)
       ELSE add_le(b1, I.hi)

\* the calls: at most MaxAdds bounds with values -MaxBound .. MaxBound are
\* added, then the bounds of a sum over the variable are derived, or a delta
\* is proposed for a value of the variable
MaxAdds == 2
MaxBound == 1
BoundKinds == {"le", "ge", "lt", "gt"}
BoundCalls ==
    [fn : {"bounds"}, is_int : BOOLEAN, b : {[lo |-> NoBound, hi |-> NoBound]},
     adds : {0}, last : {"none"}, arg : {0}, done : {FALSE}, old : {0},
     delta : {0}, out : {Perm("none", 0)}, inited : {FALSE},
     vb : {[lo |-> NoBound, hi |-> NoBound]}]

AddBound(kind, n) ==
    /\ call.fn = "bounds" /\ ~call.done /\ ~call.inited /\ call.adds < MaxAdds
    /\ call' = [call EXCEPT !.b = add_bound(kind, call.is_int, call.b, n),
                            !.adds = @ + 1, !.last = kind, !.arg = n]

\* the second loop of initialize reaches the sum node m_coeff + sum of c * w,
\* which has the sort of w
SumCoeffs == {<<1>>, <<0 - 1>>, <<2>>, <<1, 1>>, <<1, 0 - 1>>}
InitializeAdd(m_coeff, coeffs) ==
    /\ call.fn = "bounds" /\ ~call.done /\ ~call.inited
    /\ call' = [call EXCEPT !.inited = TRUE,
                            !.vb = initialize_add(call.is_int, call.b, m_coeff, coeffs)]

PermittedUpdate(old_value, delta) ==
    /\ call.fn = "bounds" /\ ~call.done
    /\ call' = [call EXCEPT !.done = TRUE, !.old = old_value, !.delta = delta,
                            !.out = permitted_in(call.b, old_value, delta)]

(***************************************************************************)
(* Sum nodes: mk_term.                                                     *)
(***************************************************************************)
linear_term == [m_args |-> <<>>, m_coeff |-> 0]

\* mk_term(e) for a term without a variable of its own: the variable is
\* NoVar when the term is returned as one of its arguments, and the sum node
\* otherwise, with the args as add_args has collected them
mk_term(val, e) ==
    LET t == add_args(linear_term, e, 1)
    IN IF t.m_coeff = 0 /\ Len(t.m_args) = 1 /\ t.m_args[1][1] = 1
       THEN [is_add |-> FALSE, m_args |-> t.m_args, m_coeff |-> t.m_coeff,
             value |-> val[t.m_args[1][2]]]
       ELSE [is_add |-> TRUE, m_args |-> t.m_args, m_coeff |-> t.m_coeff,
             value |-> t.m_coeff + lin_exact(val, t.m_args, 1)]

\* the terms given to mk_term: sums of up to three variables and numerals
TermExprs ==
    Exprs \cup {EAdd(EAdd(a, b), c) : a \in Leaves, b \in Leaves, c \in Leaves}

TermCalls ==
    [fn : {"mk_term"}, e : TermExprs, val : [1 .. 2 -> 0 .. 1], done : {FALSE},
     out : {[is_add |-> FALSE, m_args |-> <<>>, m_coeff |-> 0, value |-> 0]}]

MkTerm ==
    /\ call.fn = "mk_term" /\ ~call.done
    /\ call' = [call EXCEPT !.done = TRUE, !.out = mk_term(call.val, call.e)]

(***************************************************************************)
(* Repair of operator nodes: repair_up, repair_rem, repair_idiv and        *)
(* repair_div store the evaluated definition; eval_is_correct tests it.    *)
(***************************************************************************)
\* eval_is_correct(v) for an operator node of kind k with the value val and
\* the argument values v1 and v2
eval_is_correct(k, val, v1, v2) ==
    CASE k = "OP_MOD" -> val = (IF v2 = 0 THEN 0 ELSE mod(v1, v2))
      [] k = "OP_REM" -> val = (IF v2 = 0 THEN 0 ELSE mod(v1, v2))
      [] k = "OP_IDIV" -> val = (IF v2 = 0 THEN 0 ELSE div(v1, v2))
      [] k = "OP_DIV" -> val = (IF v2 = 0 THEN 0 ELSE quot(v1, v2))
      [] OTHER -> val = Abs(v1)

\* eval_is_correct with OP_REM evaluated as value1 evaluates it
eval_is_correct_mut(k, val, v1, v2) ==
    IF k = "OP_REM" THEN val = (IF v2 = 0 THEN 0 ELSE rem(v1, v2))
    ELSE eval_is_correct(k, val, v1, v2)

\* the value repair_rem, repair_idiv and repair_div pass to update
repair_def(k, v1, v2) ==
    CASE k = "OP_REM" -> IF v2 = 0 THEN 0 ELSE rem(v1, v2)
      [] k = "OP_IDIV" -> IF v2 = 0 THEN 0 ELSE div(v1, v2)
      [] OTHER -> IF v2 = 0 THEN 0 ELSE quot(v1, v2)

BailOps == {"OP_REM", "OP_IDIV", "OP_DIV"}

\* an operator node with the value val over arguments with the values x and
\* y; the node has no bounds and occurs in no atom, sum or product
RepairOpCalls ==
    [fn : {"repair_op"}, k : ArithOps, val : (0 - 1) .. 1, x : (0 - MaxOp) .. MaxOp,
     y : (0 - MaxOp) .. MaxOp, done : {FALSE}, stored : {FALSE}, via : {"none"}]

\* update(v, new_value) of the node followed by the test of invariant()
StoreOp(via, new_value) ==
    /\ call.fn = "repair_op" /\ ~call.done
    /\ LET D == update_leaf([val |-> <<call.val>>, ok |-> TRUE], 1, new_value)
       IN call' = [call EXCEPT !.done = TRUE, !.via = via,
                               !.val = D.val[1], !.stored = D.ok]

\* repair_up(e) for the operator term e
RepairUpOp == StoreOp("repair_up", value1_op(call.k, call.x, call.y))

\* repair_rem(od), repair_idiv(od), repair_div(od)
RepairOpDef ==
    /\ call.fn = "repair_op" /\ call.k \in BailOps
    /\ StoreOp("repair_def", repair_def(call.k, call.x, call.y))

(***************************************************************************)
(* The specification of the construction and helper calls: Init draws the  *)
(* inputs of one call, the actions run it.                                 *)
(***************************************************************************)
EngineIdle ==
    UNCHANGED <<value, args_value, assign, m_last_var, m_last_delta,
                num_steps, tabu_until, escaped, last_op, gs>>

InitFn ==
    /\ value = InitValue
    /\ args_value = InitArgs
    /\ assign = [bv \in Atoms |-> is_true(m_ineqs[bv].m_op, InitArgs[bv])]
    /\ m_last_var = NoVar
    /\ m_last_delta = 0
    /\ num_steps = 0
    /\ tabu_until = [v \in Vars |-> 0]
    /\ escaped = FALSE
    /\ last_op = Op("init", NoVar, FALSE, "true")
    /\ gs = NoSearch
    /\ call \in AtomCalls \cup QuadCalls \cup RootCalls \cup DivCalls \cup OpCalls
                \cup DistinctCalls \cup LinCalls \cup NlCalls
                \cup BoundCalls \cup RepairOpCalls
                \cup TermCalls

NextFn ==
    \/ InitBoolVar /\ EngineIdle
    \/ \E v \in 1 .. 2, n \in Vals : UpdateVar(v, n) /\ EngineIdle
    \/ FindQuadraticMoves /\ EngineIdle
    \/ RootOf /\ EngineIdle
    \/ DivideFloor /\ EngineIdle
    \/ MkOp /\ EngineIdle
    \/ RepairDistinct /\ EngineIdle
    \/ FindLinearMoves /\ EngineIdle
    \/ InitIneq /\ EngineIdle
    \/ \E kind \in BoundKinds, n \in (0 - MaxBound) .. MaxBound :
          AddBound(kind, n) /\ EngineIdle
    \/ \E old_value \in (0 - MaxBound) .. MaxBound, delta \in (0 - MaxNum) .. MaxNum :
          PermittedUpdate(old_value, delta) /\ EngineIdle
    \/ \E m_coeff \in 0 .. 1, coeffs \in SumCoeffs :
          InitializeAdd(m_coeff, coeffs) /\ EngineIdle
    \/ RepairUpOp /\ EngineIdle
    \/ RepairOpDef /\ EngineIdle
    \/ MkTerm /\ EngineIdle

SpecFn == InitFn /\ [][NextFn]_vars

\* C11: for an atom x <= y, y >= x, x < y (integer or real) or x = y, the
\* compiled inequality has is_true() equal to the truth of the atom under the
\* current values, right after construction and after successful updates
C11_IsTrueMatchesAtom ==
    (call.fn = "init_bool_var" /\ call.done) =>
        (is_true(call.ineq.m_op, call.ineq.m_args_value) <=> Truth(call.val, call.e))

\* C11 witness: integer x < y, compiled to LE with coeff 1 over x - y, is false
\* after an update has made the two values equal
C11_Witness ==
    /\ call.fn = "init_bool_var" /\ call.done /\ call.updates = 1
    /\ call.e = [kind |-> "lt", is_int |-> TRUE, l |-> EVar(1), r |-> EVar(2)]
    /\ call.ineq.m_op = "LE" /\ call.ineq.m_coeff = 1
    /\ call.ineq.m_args = <<<<1, 1>>, <<0 - 1, 2>>>>
    /\ call.val[1] = call.val[2]
    /\ ~is_true(call.ineq.m_op, call.ineq.m_args_value)

\* C12: after init_ineq the args of the atom are sorted by variable id and
\* contain each variable at most once
C12_ArgsSortedUnique ==
    (call.fn = "init_bool_var" /\ call.done) =>
        \A j \in 1 .. Len(call.ineq.m_args) - 1 :
            call.ineq.m_args[j][2] < call.ineq.m_args[j + 1][2]

\* C13: for a false LE atom a*x^2 + b*x + c <= 0 with a # 0 and
\* b^2 - 4ac >= 0, at least one delta handed to add_update by
\* find_quadratic_moves satisfies a*(x+delta)^2 + b*(x+delta) + c <= 0
C13_QuadraticMoveSatisfies ==
    (/\ call.fn = "find_quadratic_moves" /\ call.done /\ call.op = "LE"
     /\ Quad(call.a, call.b, call.c, call.xv) > 0
     /\ call.b * call.b - 4 * call.a * call.c >= 0)
    => \E j \in 1 .. Len(call.out) :
           Quad(call.a, call.b, call.c, call.xv + call.out[j]) <= 0

C15_DivideFloorBounds ==
    (call.fn = "divide_floor" /\ call.done) =>
        /\ call.out # Overflow
        /\ call.out * call.b <= call.a
        /\ call.a < (call.out + 1) * call.b

\* C15, amended: when divide_floor(v, a, b) returns q for an integer v, q is
\* the floor of a / b: q * b <= a < (q + 1) * b for b > 0, and
\* (q + 1) * b < a <= q * b for b < 0
C15_DivideFloorIsFloor ==
    (call.fn = "divide_floor" /\ call.done /\ call.out # Overflow) =>
        IF call.b > 0
        THEN call.out * call.b <= call.a /\ call.a < (call.out + 1) * call.b
        ELSE (call.out + 1) * call.b < call.a /\ call.a <= call.out * call.b

\* C15 witness: a positive a over a negative b that does not divide it
C15_Witness ==
    /\ call.fn = "divide_floor" /\ call.done
    /\ call.a = 7 /\ call.b = 0 - 2 /\ call.out = 0 - 4


(***************************************************************************)
(* Global lookahead search.  The input assertions are the atoms b1, b2 and *)
(* b3.  A search state g holds the configuration, the counters, and the    *)
(* weight and score of every assertion; E is the engine state.             *)
(***************************************************************************)
\* F applied to the value of x, the value computed once
Bind(x, F(_)) == CHOOSE r \in { F(y) : y \in {x} } : TRUE

\* can_update_num(v, delta)
can_update_num(E, v, delta) ==
    LET old_value == E.value[v]
        new_value == cadd(old_value, delta)
    IN IF new_value = Overflow THEN "throw"
       ELSE IF old_value = new_value THEN "true"
       ELSE IF ~in_range(v, new_value) THEN "false"
       ELSE IF ~in_bounds(v, new_value) /\ in_bounds(v, old_value) THEN "false"
       ELSE IF dry_run_overflows(E.value, v, new_value) THEN "false"
       ELSE "true"

\* the loop of update_args_value over vi.m_linear_occurs
RECURSIVE uav_linear(_, _, _, _)
uav_linear(av, occ, k, diff) ==
    IF k > Len(occ) \/ av = <<>> THEN av
    ELSE LET a == cadd(av[occ[k][2]], cmul(occ[k][1], diff))
         IN IF a = Overflow THEN <<>>
            ELSE uav_linear([av EXCEPT ![occ[k][2]] = a], occ, k + 1, diff)

\* update_args_value(v, new_value): the product and sum parents first, then the
\* atoms over v, then the value; "throw" when an overflow_exception leaves
RECURSIVE update_args_value(_, _, _), uav_muls(_, _, _, _, _), uav_adds(_, _, _, _, _)

uav_muls(E, v, new_value, idxs, k) ==
    IF k > Len(idxs) THEN Res("true", E)
    ELSE LET md == m_muls[idxs[k]]
             new_prod == prod_with(E.value, md.m_monomial, v, new_value)
         IN IF new_prod = Overflow THEN Res("throw", E)
            ELSE Bind(update_args_value(E, md.m_var, new_prod),
                      LAMBDA u : IF u.r # "true" THEN u
                                 ELSE uav_muls(u.E, v, new_value, idxs, k + 1))

uav_adds(E, v, new_value, idxs, k) ==
    IF k > Len(idxs) THEN Res("true", E)
    ELSE LET ad == m_adds[idxs[k]]
             new_sum == sum_with(E.value, ad.m_coeff, ad.m_args, v, new_value)
         IN IF new_sum = Overflow THEN Res("throw", E)
            ELSE Bind(update_args_value(E, ad.m_var, new_sum),
                      LAMBDA u : IF u.r # "true" THEN u
                                 ELSE uav_adds(u.E, v, new_value, idxs, k + 1))

\* the loop over vi.m_linear_occurs and vi.set_value(new_value)
uav_set(E, v, new_value) ==
    LET diff == csub(new_value, E.value[v])
        av == uav_linear(E.args_value, linear_occurs(v), 1, diff)
    IN IF av = <<>> THEN Res("throw", E)
       ELSE Res("true", [E EXCEPT !.args_value = av, !.value[v] = new_value])

update_args_value(E, v, new_value) ==
    Bind(uav_muls(E, v, new_value, var_muls(v), 1),
         LAMBDA rm : IF rm.r # "true" THEN rm
                     ELSE Bind(uav_adds(rm.E, v, new_value, var_adds(v), 1),
                               LAMBDA ra : IF ra.r # "true" THEN ra
                                           ELSE uav_set(ra.E, v, new_value)))

\* a variant that moves v and the atoms over v and leaves the parents alone
update_num_mut(E, v, delta) ==
    IF delta = 0 THEN Res("true", E)
    ELSE LET c == can_update_num(E, v, delta)
         IN IF c # "true" THEN Res(c, E)
            ELSE uav_set(E, v, E.value[v] + delta)

\* update_num(v, delta)
update_num(E, v, delta) ==
    IF delta = 0 THEN Res("true", E)
    ELSE LET c == can_update_num(E, v, delta)
         IN IF c # "true" THEN Res(c, E)
            ELSE update_args_value(E, v, E.value[v] + delta)

\* new_score(a) of an assertion that is an atom, on the scale max_value^2;
\* b is the cached Boolean value of the atom, get_bool_value(a)
max_value == 1000
ScoreUnit == max_value * max_value

new_score(bv, args, b) ==
    LET ineq == m_ineqs[bv]
        val == cadd(args, ineq.m_coeff)
        shaped(d) == IF d > max_value THEN 0 ELSE ScoreUnit - d * d
    IN IF b THEN ScoreUnit
       ELSE IF val = Overflow THEN Overflow
       ELSE CASE ineq.m_op = "LE" -> IF val <= 0 THEN ScoreUnit ELSE shaped(val)
              [] ineq.m_op = "EQ" -> IF val = 0 THEN ScoreUnit ELSE shaped(Abs(val))
              [] OTHER -> IF val < 0 THEN ScoreUnit ELSE shaped(val)

RECURSIVE SumOver(_, _)
SumOver(f, S) ==
    IF S = {} THEN 0
    ELSE LET a == CHOOSE a \in S : TRUE IN f[a] + SumOver(f, S \ {a})

\* the result of a step of the search: r is "true", "false" or "throw"
SRes(r, E, g) == [r |-> r, E |-> E, g |-> g]

\* rescore(): m_top_score is the sum of the new scores
rescore(E, g) ==
    LET sc == [a \in Atoms |-> new_score(a, E.args_value[a], g.bval[a])]
    IN IF \E a \in Atoms : sc[a] = Overflow THEN SRes("throw", E, g)
       ELSE SRes("true", E, [g EXCEPT !.score = sc, !.top_score = SumOver(sc, Atoms)])

\* the term of w contains the term of v
RECURSIVE Contains(_, _)
Contains(w, v) ==
    \/ w = v
    \/ is_mul(w) /\ \E j \in DOMAIN get_mul(w).m_monomial :
                       Contains(get_mul(w).m_monomial[j][1], v)
    \/ is_add(w) /\ \E j \in DOMAIN get_add(w).m_args :
                       Contains(get_add(w).m_args[j][2], v)

\* insert_update_stack_rec(t) for the term t of v: the assertions it reaches
update_stack(v) ==
    {a \in Atoms : \E j \in DOMAIN m_ineqs[a].m_args : Contains(m_ineqs[a].m_args[j][2], v)}

\* lookahead(t, update_score) for the term t of v: the cached Boolean values
\* of the stack are refreshed, the result carries the score in g.la
lookahead(E, g, v, update_score) ==
    LET st == update_stack(v)
        bv1 == [a \in Atoms |-> IF a \in st
                                THEN is_true(m_ineqs[a].m_op, E.args_value[a])
                                ELSE g.bval[a]]
        ns == [a \in Atoms |-> new_score(a, E.args_value[a], bv1[a])]
        score == g.top_score
                   + SumOver([a \in Atoms |-> g.weight[a] * (ns[a] - g.score[a])], st)
        g1 == [g EXCEPT !.bval = bv1, !.la = score]
    IN IF \E a \in st : ns[a] = Overflow THEN SRes("throw", E, g)
       ELSE SRes("true", E,
                 IF update_score
                 THEN [g1 EXCEPT !.score = [a \in Atoms |->
                                              IF a \in st THEN ns[a] ELSE g.score[a]]]
                 ELSE g1)

\* check_restart(); g.cr records the call: the threshold before and after,
\* whether a restart was made and its number
restart_record(g0, g1, restarted) ==
    [g1 EXCEPT !.cr = [before |-> g0.restart_next, after |-> g1.restart_next,
                       restarted |-> restarted, k |-> g1.restarts]]

\* the restart of check_restart; inc is the increment of the threshold
restart(E, g0, g1, inc) ==
    LET nxt == IF g1.restart_next > g1.moves THEN g1.restart_next ELSE g1.moves
    IN Bind(rescore(E, [g1 EXCEPT !.restarts = @ + 1, !.restart_next = nxt + inc]),
            LAMBDA r2 : IF r2.r = "throw" THEN r2
                        ELSE SRes("true", E, restart_record(g0, r2.g, TRUE)))

restart_increment_mut(k, restart_base) == restart_base

\* the increment of restart_next at the k-th restart
restart_increment(k, restart_base) ==
    IF k % 2 = 1 THEN restart_base ELSE (2 * (k \div 2)) * restart_base

check_restart(E, g) ==
    Bind(IF g.moves % g.restart_base = 0 THEN rescore(E, g) ELSE SRes("true", E, g),
         LAMBDA r1 :
             IF r1.r = "throw" THEN r1
             ELSE IF r1.g.moves < r1.g.restart_next
             THEN SRes("true", E, restart_record(g, r1.g, FALSE))
             ELSE restart(E, g, r1.g,
                          restart_increment(r1.g.restarts + 1, r1.g.restart_base)))

\* get_fixable_exprs(a) for an atom a: the variables without a definition
\* below the variables of ineq->m_nonlinear, in the order they are found
RECURSIVE fixable_from(_, _, _)
fixable_from(vs, j, out) ==
    IF j > Len(vs) THEN out
    ELSE LET v == vs[j]
         IN IF \E i \in DOMAIN out : out[i] = v THEN fixable_from(vs, j + 1, out)
            ELSE IF is_add(v)
            THEN fixable_from(vs \o [i \in DOMAIN get_add(v).m_args |->
                                       get_add(v).m_args[i][2]], j + 1, out)
            ELSE IF is_mul(v)
            THEN fixable_from(vs \o [i \in DOMAIN get_mul(v).m_monomial |->
                                       get_mul(v).m_monomial[i][1]], j + 1, out)
            ELSE fixable_from(vs, j + 1, Append(out, v))

get_fixable_exprs(a) ==
    fixable_from([k \in DOMAIN m_nonlinear[a] |-> m_nonlinear[a][k].x], 1, <<>>)

\* get_candidate_unsat(): the assertions that can be drawn, 0 for none
NoAtom == 0
get_candidate_unsat(g) ==
    LET c == {a \in Atoms : ~g.bval[a] /\ Len(get_fixable_exprs(a)) > 0}
    IN IF c = {} THEN {NoAtom} ELSE c

\* the part of apply_move after the switch: commit m_best_expr = term of v
commit_move(E, g, v, best_value) ==
    IF best_value = Overflow THEN SRes("throw", E, g)
    ELSE Bind(update_num(E, v, csub(best_value, E.value[v])),
              LAMBDA u :
                  IF u.r # "true" THEN SRes(u.r, u.E, g)
                  ELSE Bind(lookahead(u.E, g, v, TRUE),
                            LAMBDA la : IF la.r = "throw" THEN la
                                        ELSE SRes("true", u.E,
                                                  [la.g EXCEPT !.top_score = la.g.la])))

\* std::stable_sort of m_updates by (m_var, m_delta)
RECURSIVE sort_updates(_, _, _)
upd_less(a, b) == a.v < b.v \/ (a.v = b.v /\ a.delta < b.delta)
sort_insert(out, u) ==
    LET n == Len(out)
        pos == CHOOSE i \in 1 .. n + 1 :
                   /\ \A j \in 1 .. i - 1 : ~upd_less(u, out[j])
                   /\ (i <= n => upd_less(u, out[i]))
    IN [j \in 1 .. n + 1 |-> IF j < pos THEN out[j] ELSE IF j = pos THEN u ELSE out[j - 1]]
sort_updates(upd, j, out) ==
    IF j > Len(upd) THEN out ELSE sort_updates(upd, j + 1, sort_insert(out, upd[j]))

\* the state of a hillclimb: the search state, m_last_expr, m_best_expr,
\* m_best_score and m_best_value
Hill(r, E, g, last, best, score, val) ==
    [r |-> r, E |-> E, g |-> g, last |-> last, best |-> best, score |-> score, val |-> val]

\* lookahead_num(v, delta) after m_last_expr and m_last_delta are set:
\* g is the search state then, E1 the engine state
lookahead_try(H, E1, g, v, delta) ==
    LET new_value == cadd(E1.value[v], delta)
    IN IF new_value = Overflow THEN Hill("throw", E1, g, v, H.best, H.score, H.val)
       ELSE Bind(update_num(E1, v, delta),
                 LAMBDA u :
                     IF u.r = "throw" THEN Hill("throw", u.E, g, v, H.best, H.score, H.val)
                     ELSE IF u.r = "false" THEN Hill("true", E1, g, v, H.best, H.score, H.val)
                     ELSE Bind(<<lookahead(u.E, g, v, FALSE),
                                 update_args_value(u.E, v, E1.value[v])>>,
                               LAMBDA p :
                                   IF p[1].r = "throw" \/ p[2].r = "throw"
                                   THEN Hill("throw", p[2].E, p[1].g, v,
                                             H.best, H.score, H.val)
                                   ELSE IF p[1].g.la > H.score
                                   THEN Hill("true", p[2].E, p[1].g, v, v,
                                             p[1].g.la, new_value)
                                   ELSE Hill("true", p[2].E, p[1].g, v,
                                             H.best, H.score, H.val)))

\* lookahead_num without the revert to the old value
lookahead_num_mut(H, v, delta) ==
    Bind(update_num(H.E, v, delta),
         LAMBDA u : Hill(u.r, u.E, H.g, v, H.best, H.score, H.val))

\* lookahead_num(v, delta)
lookahead_num(H, v, delta) ==
    IF H.last = v /\ H.E.m_last_delta = delta THEN H
    ELSE Bind(IF H.last # v /\ H.last # NoVar
              THEN lookahead(H.E, H.g, H.last, FALSE) ELSE SRes("true", H.E, H.g),
              LAMBDA l0 : IF l0.r = "throw" THEN [H EXCEPT !.r = "throw"]
                          ELSE lookahead_try(H, [H.E EXCEPT !.m_last_delta = delta],
                                             l0.g, v, delta))

\* the loop of the hillclimb over m_updates[(start + i) % sz]
RECURSIVE hill_loop(_, _, _, _)
hill_loop(H, upd, start, i) ==
    IF i >= Len(upd) \/ H.r = "throw" THEN H
    ELSE Bind(lookahead_num(H, upd[((start + i) % Len(upd)) + 1].v,
                            upd[((start + i) % Len(upd)) + 1].delta),
              LAMBDA h : hill_loop(h, upd, start, i + 1))

\* the end of the hillclimb: the lookahead of m_last_expr, then the commit
hill_end(H1) ==
    IF H1.r = "throw" THEN SRes("throw", H1.E, H1.g)
    ELSE Bind(lookahead(H1.E, H1.g, H1.last, FALSE),
              LAMBDA l1 : IF l1.r = "throw" THEN l1
                          ELSE IF H1.best = NoVar THEN SRes("false", H1.E, l1.g)
                          ELSE commit_move(H1.E, l1.g, H1.best, H1.val))

\* m_updates after the calls of add_lookahead for the fixable expressions of f
lookahead_updates(E, f) == find_nl_from(Prop(E, <<>>, FALSE), TRUE, f, 1)

\* apply_move with m_best_score starting below m_top_score
apply_move_mut(E, g, f, t) ==
    IF t = "random_inc_dec"
    THEN { commit_move(E, g, v, cadd(E.value[v], d))
             : v \in {get_fixable_exprs(f)[i] : i \in DOMAIN get_fixable_exprs(f)},
               d \in {0 - 1, 1} }
    ELSE UNION { IF P.thrown THEN { SRes("throw", P.E, g) }
                 ELSE IF Len(P.upd) = 0 THEN { SRes("false", P.E, g) }
                 ELSE IF t = "random_update"
                 THEN { commit_move(P.E, g, P.upd[i].v,
                                    cadd(P.E.value[P.upd[i].v], P.upd[i].delta))
                          : i \in DOMAIN P.upd }
                 ELSE { hill_end(hill_loop(Hill("true", P.E, g, NoVar, NoVar,
                                                g.top_score - ScoreUnit, 0),
                                           sort_updates(P.upd, 1, <<>>), start, 0))
                          : start \in 0 .. Len(P.upd) - 1 }
                 : P \in { lookahead_updates(E, f) } }

\* apply_move(f, vars, t): the set of its outcomes over the draws of ctx.rand
apply_move(E, g, f, t) ==
    IF t = "random_inc_dec"
    THEN { commit_move(E, g, v, cadd(E.value[v], d))
             : v \in {get_fixable_exprs(f)[i] : i \in DOMAIN get_fixable_exprs(f)},
               d \in {0 - 1, 1} }
    ELSE UNION { IF P.thrown THEN { SRes("throw", P.E, g) }
                 ELSE IF Len(P.upd) = 0 THEN { SRes("false", P.E, g) }
                 ELSE IF t = "random_update"
                 THEN { commit_move(P.E, g, P.upd[i].v,
                                    cadd(P.E.value[P.upd[i].v], P.upd[i].delta))
                          : i \in DOMAIN P.upd }
                 ELSE { hill_end(hill_loop(Hill("true", P.E, g, NoVar, NoVar,
                                                g.top_score, 0),
                                           sort_updates(P.upd, 1, <<>>), start, 0))
                          : start \in 0 .. Len(P.upd) - 1 }
                 : P \in { lookahead_updates(E, f) } }

\* inc_weight, dec_weight: the weight does not fall below the initial weight
inc_weight(g, w) == w + 1
dec_weight(g, w) == IF w > g.paws_init THEN w - 1 ELSE g.paws_init

\* recalibrate_weights(): the weights it can leave; S is the set of
\* assertions for which ctx.rand(2047) < paws_sp
recalibrate_weights(g) ==
    { [g EXCEPT !.weight = [a \in Atoms |->
                              IF a \in S
                              THEN (IF g.bval[a] THEN dec_weight(g, g.weight[a])
                                    ELSE g.weight[a])
                              ELSE (IF ~g.bval[a] THEN inc_weight(g, g.weight[a])
                                    ELSE g.weight[a])]]
        : S \in SUBSET Atoms }

\* the most moves the search is followed for
MaxMoves == 3

\* arith_move_type
MoveTypes == {"random_update", "hillclimb", "random_inc_dec"}

\* the loop condition of global_search: m.inc() && m_moves < max_moves
loop_cond_mut(g) == g.moves < g.max_moves
loop_cond(g) == g.inc /\ g.moves < g.max_moves

\* one pass of the loop body after check_restart, for the candidate t and the
\* draw coin of ctx.rand(2047) < wp: the states it can leave; pc is "loop"
\* after continue or the end of the body, "exit" after break, "thrown" when
\* an overflow_exception leaves global_search
Pass(pc, o, ev) ==
    [pc |-> pc, E |-> o.E,
     g |-> [o.g EXCEPT !.ev = ev,
                       !.committed = IF ev \in MoveTypes THEN @ + 1 ELSE @]]

third_move(E, g, t) ==
    UNION { IF o.r = "throw" THEN { Pass("thrown", o, "throw") }
            ELSE IF o.r = "false" THEN { Pass("loop", o, "no_move") }
            ELSE { Pass("loop", SRes("true", o.E, g1), "random_update")
                     : g1 \in recalibrate_weights(o.g) }
            : o \in apply_move(E, g, t, "random_update") }

second_move(E, g, t) ==
    UNION { IF o.r = "throw" THEN { Pass("thrown", o, "throw") }
            ELSE IF o.r = "true" THEN { Pass("loop", o, "hillclimb") }
            ELSE third_move(o.E, o.g, t)
            : o \in apply_move(E, g, t, "hillclimb") }

loop_body(E, g, t, coin) ==
    IF t = NoAtom \/ Len(get_fixable_exprs(t)) = 0
    THEN { Pass("exit", SRes("true", E, g), "break") }
    ELSE IF coin
    THEN UNION { IF o.r = "throw" THEN { Pass("thrown", o, "throw") }
                 ELSE IF o.r = "true" THEN { Pass("loop", o, "random_inc_dec") }
                 ELSE second_move(o.E, o.g, t)
                 : o \in apply_move(E, g, t, "random_inc_dec") }
    ELSE second_move(E, g, t)

\* finalize_bool_assignment(): flip every atom whose cached value differs
finalize_bool_assignment(g, asg) == [a \in Atoms |-> g.bval[a]]

SetSearch(pc, E, g) ==
    /\ SetEng(E)
    /\ m_last_delta' = E.m_last_delta
    /\ gs' = [g EXCEPT !.pc = pc]
    /\ escaped' = (pc = "thrown")
    /\ UNCHANGED <<num_steps, tabu_until, last_op, call>>

\* start_propagation() up to the loop of global_search:
\* initialize_bool_assignment, rescore, max_moves = moves + max_moves_base
start_propagation_mut(g) == TRUE

\* start_propagation(): after updt_params, global_search is run if
\* m_config.arith_use_lookahead
start_propagation(g) == g.arith_use_lookahead

GlobalSearchEnter ==
    /\ gs.pc = "idle"
    /\ start_propagation(gs)
    /\ gs.moves + gs.max_moves_base <= MaxMoves
    /\ \E r \in { rescore(Eng, [gs EXCEPT !.bval = [a \in Atoms |->
                                   is_true(m_ineqs[a].m_op, args_value[a])]]) } :
          SetSearch(IF r.r = "throw" THEN "thrown" ELSE "loop", Eng,
                    [r.g EXCEPT !.max_moves = gs.moves + gs.max_moves_base,
                                !.entry_moves = gs.moves,
                                !.entry_base = gs.max_moves_base,
                                !.iters = 0, !.committed = 0, !.ev = "enter",
                                !.config_initialized = TRUE])

\* start_propagation() with arith_use_lookahead off: updt_params only
StartPropagation ==
    /\ gs.pc = "idle"
    /\ ~start_propagation(gs)
    /\ gs' = [gs EXCEPT !.config_initialized = TRUE, !.ev = "start_propagation"]
    /\ UNCHANGED <<value, args_value, assign, m_last_var, m_last_delta, num_steps,
                   tabu_until, escaped, last_op, call>>

\* one iteration of the loop of global_search
Iterate ==
    /\ gs.pc = "loop"
    /\ loop_cond(gs)
    /\ \E cr \in { check_restart(Eng, [gs EXCEPT !.moves = @ + 1, !.iters = @ + 1]) } :
          IF cr.r = "throw" THEN SetSearch("thrown", cr.E, cr.g)
          ELSE \E t \in get_candidate_unsat(cr.g), coin \in BOOLEAN :
                   \E o \in loop_body(cr.E, cr.g, t, coin) : SetSearch(o.pc, o.E, o.g)

global_search_exit_mut(g) == g.max_moves_base + 100

\* max_moves_base after the loop of global_search
global_search_exit(g) ==
    IF g.moves >= g.max_moves THEN g.max_moves_base + 100 ELSE g.max_moves_base

\* the end of global_search after the loop
Return ==
    /\ gs.pc = "exit" \/ (gs.pc = "loop" /\ ~loop_cond(gs))
    /\ SetSearch("idle",
                 [Eng EXCEPT !.assign = finalize_bool_assignment(gs, assign)],
                 [gs EXCEPT !.max_moves_base = global_search_exit(gs), !.ev = "return"])

\* the owner of the manager cancels: m.inc() reads false from now on
Cancel ==
    /\ gs.pc \in {"idle", "loop", "exit"}
    /\ gs.inc
    /\ gs' = [gs EXCEPT !.inc = FALSE, !.ev = "cancel"]
    /\ UNCHANGED <<value, args_value, assign, m_last_var, m_last_delta, num_steps,
                   tabu_until, escaped, last_op, call>>

LeafVals == 0 .. 1

\* the values of the terms for the values x and y of the two variables
ValueOf(x, y) == [v \in Vars |-> CASE v = 1 -> x [] v = 2 -> y [] v = 3 -> x * y
                                   [] OTHER -> 1 + x * y]

\* the configuration and statistics before the first start_propagation()
InitG(base, rbase, rnext, pw, la) ==
    [pc |-> "idle", inc |-> TRUE, arith_use_lookahead |-> la,
     config_initialized |-> FALSE, moves |-> 0, max_moves |-> 0,
     max_moves_base |-> base, restart_base |-> rbase, restart_next |-> rnext,
     restarts |-> 0, paws_init |-> pw,
     weight |-> [a \in Atoms |-> pw], score |-> [a \in Atoms |-> 0],
     bval |-> [a \in Atoms |-> FALSE], top_score |-> 0, la |-> 0,
     entry_moves |-> 0, entry_base |-> base, iters |-> 0, committed |-> 0,
     cr |-> [before |-> rnext, after |-> rnext, restarted |-> FALSE, k |-> 0],
     ev |-> "init"]

InitSearch ==
    /\ \E x \in LeafVals, y \in LeafVals :
          /\ value = ValueOf(x, y)
          /\ args_value = [bv \in Atoms |->
                             sum_of(ValueOf(x, y), m_ineqs[bv].m_coeff, m_ineqs[bv].m_args)]
    /\ assign = [bv \in Atoms |-> is_true(m_ineqs[bv].m_op, args_value[bv])]
    /\ m_last_var = NoVar
    /\ m_last_delta = 0
    /\ num_steps = 0
    /\ tabu_until = [v \in Vars |-> 0]
    /\ escaped = FALSE
    /\ last_op = Op("init", NoVar, FALSE, "true")
    /\ call = NoCall
    /\ gs \in { InitG(base, rbase, rnext, pw, la) :
                  base \in 1 .. MaxMoves, rbase \in 1 .. 2, rnext \in 1 .. 2,
                  pw \in 1 .. 2, la \in BOOLEAN }

NextSearch ==
    \/ GlobalSearchEnter
    \/ StartPropagation
    \/ Iterate
    \/ Return
    \/ Cancel

SpecSearch == InitSearch /\ [][NextSearch]_vars

\* C16: an invocation of global_search makes at most max_moves_base passes
\* of its loop: the move counter is the counter at entry plus the number of
\* passes, after max_moves_base passes the loop condition is false so that
\* the loop is left; on return max_moves_base has grown by exactly 100 if the
\* move counter has reached max_moves and is unchanged otherwise
C16_BoundedSearch ==
    /\ gs.moves = gs.entry_moves + gs.iters
    /\ gs.iters <= gs.entry_base
    /\ gs.pc \in {"loop", "exit"} => gs.max_moves = gs.entry_moves + gs.entry_base
    /\ (gs.pc = "loop" /\ gs.iters = gs.entry_base) => ~loop_cond(gs)
    /\ gs.ev = "return" =>
          gs.max_moves_base = (IF gs.moves >= gs.entry_moves + gs.entry_base
                               THEN gs.entry_base + 100 ELSE gs.entry_base)

\* an invocation has used up its budget of 2 moves and has returned
C16_Witness ==
    /\ gs.ev = "return"
    /\ gs.iters = 2
    /\ gs.entry_base = 2
    /\ gs.max_moves_base = 102

\* C17: once the cancel flag reads false inside the loop, the next step is the
\* return of global_search: no pass is made, the values, the cached sums and
\* the counters of moves stay, and the assignment of the context is set from
\* the cached Boolean values by finalize_bool_assignment
C17_CancelStops ==
    [][ (gs.pc = "loop" /\ ~gs.inc) =>
          /\ value' = value
          /\ args_value' = args_value
          /\ gs'.moves = gs.moves
          /\ gs'.committed = gs.committed
          /\ gs'.pc = "idle"
          /\ assign' = [a \in Atoms |-> gs.bval[a]] ]_vars

\* a search was cancelled after it had committed a move and before its
\* budget was used up, and has returned
C17_Witness ==
    /\ gs.ev = "return"
    /\ ~gs.inc
    /\ gs.committed > 0
    /\ gs.moves < gs.max_moves

\* C18: after rescore and after every committed move the top score is the
\* weighted sum of the scores of the assertions
C18_TopScoreWeighted ==
    gs.ev \in {"enter"} \cup MoveTypes =>
        gs.top_score = SumOver([a \in Atoms |-> gs.weight[a] * gs.score[a]], Atoms)

\* C19: check_restart restarts only when the move counter has reached
\* restart_next; the k-th restart raises restart_next by restart_base for odd
\* k and by 2*(k/2)*restart_base for even k; restart_next does not decrease
\* and exceeds the move counter when check_restart has returned
C19_RestartSchedule ==
    gs.pc # "thrown" =>
        /\ gs.cr.after >= gs.cr.before
        /\ gs.cr.after > gs.moves
        /\ gs.cr.after = gs.restart_next
        /\ ~gs.cr.restarted => gs.cr.after = gs.cr.before
        /\ gs.cr.restarted =>
              /\ gs.moves >= gs.cr.before
              /\ gs.restarts = gs.cr.k
              /\ gs.cr.after - gs.cr.before =
                    (IF gs.cr.k % 2 = 1 THEN gs.restart_base
                     ELSE 2 * (gs.cr.k \div 2) * gs.restart_base)

\* the second restart has been made
C19_Witness ==
    /\ gs.pc = "loop"
    /\ gs.cr.restarted
    /\ gs.cr.k = 2

\* C20: the value mk_op gives a new MOD, REM, IDIV, DIV or ABS node is the
\* value of its definition under the current values of its arguments, as
\* value1 computes it, and is 0 when the value of the divisor is 0
C20_OpInitialValue ==
    (call.fn = "mk_op" /\ call.done) =>
        /\ call.out = value1_op(call.k, call.x, call.y)
        /\ (call.k # "OP_ABS" /\ call.y = 0) => call.out = 0

\* C21: after repair_distinct on arguments whose updates all succeed, the
\* values of the arguments are pairwise different
C21_DistinctRepaired ==
    (call.fn = "repair_distinct" /\ call.done /\ call.ok) => eval_distinct(call.out)

\* C22: with arith_use_lookahead off no step of the search state, and so no
\* start_propagation, changes a value, a cached sum, the Boolean assignment,
\* a score, a weight, the top score or a counter of moves
C22_LookaheadOffNoOp ==
    [][ ~gs.arith_use_lookahead =>
          /\ value' = value
          /\ args_value' = args_value
          /\ assign' = assign
          /\ gs'.score = gs.score
          /\ gs'.weight = gs.weight
          /\ gs'.bval = gs.bval
          /\ gs'.top_score = gs.top_score
          /\ gs'.moves = gs.moves
          /\ gs'.committed = gs.committed
          /\ gs'.pc = gs.pc ]_vars

\* start_propagation has run with arith_use_lookahead off
C22_Witness ==
    /\ ~gs.arith_use_lookahead
    /\ gs.ev = "start_propagation"
    /\ gs.config_initialized

\* the call of find_linear_moves has run without an overflow
LinDone ==
    /\ call.fn = "find_linear_moves"
    /\ call.done
    /\ \A k \in DOMAIN call.out : call.out[k] # Overflow

\* C23: for a false atom (EQ: when coeff divides the sum) find_linear_moves
\* computes one delta, the atom is true at sum + coeff * delta, and no delta
\* of smaller absolute value makes it true (for a real variable: no delta
\* among the halves)
C23_LinearMoveMinimal ==
    (/\ LinDone
     /\ ~is_true(call.op, call.sum)
     /\ call.op = "EQ" => call.sum % Abs(call.coeff) = 0) =>
        /\ Len(call.out) = 1
        /\ is_true(call.op, call.sum + call.coeff * call.out[1])
        /\ call.is_int =>
              \A n \in (0 - MaxNum) .. MaxNum :
                  Abs(n) < Abs(call.out[1]) =>
                      ~is_true(call.op, call.sum + call.coeff * n)
        /\ ~call.is_int =>
              \A n \in (0 - 2 * MaxNum) .. (2 * MaxNum) :
                  Abs(n) < 2 * Abs(call.out[1]) =>
                      ~is_true(call.op, 2 * call.sum + call.coeff * n)

\* C24 as stated: for a true atom every proposed delta keeps the atom true
C24_TrueStaysTrue ==
    (LinDone /\ is_true(call.op, call.sum)) =>
        \A k \in DOMAIN call.out :
            is_true(call.op, call.sum + call.coeff * call.out[k])

\* C24: for a true atom and an integer variable every delta that
\* find_linear_moves proposes makes the atom false at sum + coeff * delta
C24_TrueBecomesFalse ==
    (LinDone /\ is_true(call.op, call.sum) /\ call.is_int) =>
        /\ Len(call.out) > 0
        /\ \A k \in DOMAIN call.out :
               ~is_true(call.op, call.sum + call.coeff * call.out[k])

\* the true atom with sum 0 and the integer variable with coefficient 2:
\* the delta is 1
C24_Witness ==
    /\ LinDone
    /\ call.is_int
    /\ call.op = "LE"
    /\ call.sum = 0
    /\ call.coeff = 2
    /\ call.out = << 1 >>

\* C25: after init_ineq the nonlinear list has at most one group per factor
\* variable: no two groups of the list are keyed by the same variable
C25_OneGroupPerFactor ==
    (call.fn = "init_ineq" /\ call.done) =>
        \A j, k \in DOMAIN call.out :
            call.out[j].x = call.out[k].x => j = k

\* the change of the sum of the args when the variable v moves by delta and
\* the product is recomputed
NlChange(args, x, y, v, delta) ==
    LET to == IF v = 1 THEN NlValue(x + delta, y) ELSE NlValue(x, y + delta)
    IN lin_exact(to, args, 1) - lin_exact(NlValue(x, y), args, 1)

\* C26: when is_linear(x, nl, b) returns true for a group of the atom, a
\* change of value(x) by delta, with the products recomputed, changes the
\* sum of the atom by exactly b * delta
C26_LinearSensitivityExact ==
    (call.fn = "init_ineq" /\ call.done) =>
        \A k \in DOMAIN call.out :
            (call.lin[k].r /\ call.lin[k].b # Overflow) =>
                \A delta \in Vals :
                    NlChange(call.args, call.x, call.y, call.out[k].x, delta)
                        = call.lin[k].b * delta

\* the first attempt of repair, find_nl_moves under tabu, fails
NlFails(bv) == \A o \in find_nl_moves(Eng, TRUE, bv) : o.r = "false"

\* find_nl_moves without tabu, run after the failed first attempt, succeeds
RetrySucceeds(bv) ==
    \A o \in find_nl_moves(Eng, TRUE, bv) :
        \A o2 \in find_nl_moves(o.E, FALSE, bv) : o2.r = "true"

\* C27 as stated: when find_nl_moves under tabu fails and find_nl_moves
\* without tabu finds a move, repair commits that move and no reset move
C27_RetryWithoutTabu ==
    [][\A bv \in Atoms :
          (Repair(bv) /\ NlFails(bv) /\ RetrySucceeds(bv)) =>
              last_op'.stage = "nl"]_vars

\* C27: when find_nl_moves under tabu fails, repair goes on to
\* find_reset_moves with tabu disabled; find_nl_moves is not tried again
C27_ResetAfterFailedAttempt ==
    [][\A bv \in Atoms :
          (Repair(bv) /\ NlFails(bv)) =>
              /\ last_op'.stage = "reset"
              /\ \E o1 \in find_nl_moves(Eng, TRUE, bv), d \in Draws :
                    \E o \in find_reset_moves(o1.E, FALSE, bv, d) :
                        /\ last_op'.r = o.r
                        /\ value' = o.E.value
                        /\ num_steps' = o.E.num_steps]_vars

\* a repair has committed a reset move
C27_Witness ==
    /\ last_op.op = "repair"
    /\ last_op.stage = "reset"
    /\ last_op.r = "true"

\* C28: apply_update never commits a candidate whose compute_score is 0:
\* a move committed by find_nl_moves under tabu has a score other than 0 in
\* the state in which apply_update has scored it
C28_ZeroScoreNeverCommitted ==
    [][\A bv \in Atoms :
          (Repair(bv) /\ last_op'.r = "true" /\ last_op'.stage = "nl") =>
              compute_score(Eng, TRUE, last_op'.v, last_op'.delta) # 0]_vars

\* C29: a repair whose apply_update returns true has increased the step
\* counter by exactly 1, recorded the committed delta as last_delta and set
\* the ban window of the moved variable to a step between step + 3 and
\* step + 12, step being the new value of the counter; a repair whose
\* apply_update calls all return false has left the step counter unchanged
\* and has not recorded a delta other than the 0 of the reset proposer
C29_CommitBookkeeping ==
    [][\A bv \in Atoms : Repair(bv) =>
          /\ last_op'.r = "true" =>
                /\ num_steps' = num_steps + 1
                /\ m_last_delta' = last_op'.delta
                /\ tabu_until'[last_op'.v] >= num_steps' + TabuBase
                /\ tabu_until'[last_op'.v] <= num_steps' + TabuBase + TabuRand - 1
          /\ last_op'.r = "false" =>
                /\ num_steps' = num_steps
                /\ tabu_until' = tabu_until
                /\ m_last_delta' \in {m_last_delta, 0}]_vars

\* a repair has committed a move as step 2 and banned the moved variable
\* until step 2 + 3 + 9
C29_Witness ==
    /\ last_op.op = "repair"
    /\ last_op.r = "true"
    /\ num_steps = 2
    /\ tabu_until[last_op.v] = 2 + TabuBase + TabuRand - 1

\* update(v, n) and update_num(v, n - value(v)) from the current state agree:
\* where the first returns true, the second returns true with the same
\* values and the same sums of the atoms
SameAsUpdateNum(v, n) ==
    \A u \in {update(Eng, v, n)} :
        u.r = "true" =>
            \A w \in {update_num(Eng, v, n - value[v])} :
                /\ w.r = "true"
                /\ w.E.value = u.E.value
                /\ w.E.args_value = u.E.args_value

DefsHold == \A u \in Vars : (is_add(u) \/ is_mul(u)) => value[u] = Def(value, u)

C31_BoundsKept ==
    [][\A v \in Vars :
          in_bounds(v, value[v]) => in_bounds(v, value'[v])]_vars

\* C32: with tabu on and value(v) within the bounds of v, when
\* is_permitted_update returns true, value(v) + delta_out is within the
\* bounds and delta_out is not 0
C32_PermittedStaysInBounds ==
    (/\ call.fn = "bounds" /\ call.done
     /\ in_bounds_of(call.b, call.old)
     /\ call.out.r = "true") =>
        /\ in_bounds_of(call.b, call.old + call.out.delta_out)
        /\ call.out.delta_out # 0

\* the states in which the cached sums and the defined terms are up to date
Settled == ~escaped /\ call = NoCall /\ DefsHold /\ C1_ArgsValueCached

\* C33 as stated: at every ctx.flip during update(v, n) of a variable v, the
\* new value is stored and the sum of every atom that depends on v, directly
\* or through the product p and the sum q above it, is the sum over the
\* values with p and q recomputed
C33_FlipSeesAllAtomsUpdated ==
    Settled =>
        \A v \in 1 .. 2, n \in Nums :
            \A w \in update_views(Eng, v, n) :
                w.v = v =>
                    /\ w.E.value[v] = n
                    /\ \A bv \in Atoms :
                          w.E.args_value[bv] =
                              AtomSum(TermValue(w.E.value[1], w.E.value[2]), bv)


\* C34: after repair_up, repair_rem, repair_idiv or repair_div has stored the
\* evaluated definition as the value of an operator node, eval_is_correct of
\* the node is true
C34_StoredValue1IsCorrect ==
    (call.fn = "repair_op" /\ call.done /\ call.stored) =>
        eval_is_correct(call.k, call.val, call.x, call.y)

\* C35: every sum node made by mk_term has its args in strictly increasing
\* order of the variables: sorted, and no variable twice
C35_TermArgsSortedUnique ==
    (call.fn = "mk_term" /\ call.done /\ call.out.is_add) =>
        \A i \in DOMAIN call.out.m_args : \A j \in DOMAIN call.out.m_args :
            i < j => call.out.m_args[i][2] < call.out.m_args[j][2]

HillAt(last) ==
    Hill("true", Eng,
         [InitG(1, 1, 1, 1, TRUE) EXCEPT
              !.bval = [a \in Atoms |-> is_true(m_ineqs[a].m_op, args_value[a])]],
         last, NoVar, 0, 0)

\* lookahead_num(v, delta) returns with the values and the cached sums of the
\* current state
LookaheadNumRestores ==
    \A v \in 1 .. 2, delta \in (0 - MaxNum) .. MaxNum, last \in {NoVar} \cup (1 .. 2) :
        \A h \in {lookahead_num(HillAt(last), v, delta)} :
            h.r = "true" => h.E.value = value /\ h.E.args_value = args_value

HillInputs ==
    IF gs.pc # "loop" \/ ~loop_cond(gs) THEN {}
    ELSE UNION { IF cr.r = "throw" THEN {}
                 ELSE { [E |-> cr.E, g |-> cr.g, f |-> f]
                          : f \in get_candidate_unsat(cr.g) \ {NoAtom} }
                 : cr \in { check_restart(Eng, [gs EXCEPT !.moves = @ + 1,
                                                          !.iters = @ + 1]) } }

\* the score of the best candidate that the hillclimb of apply_move has seen
BestScores(i) ==
    { hill_loop(Hill("true", P.E, i.g, NoVar, NoVar, i.g.top_score, 0),
                sort_updates(P.upd, 1, <<>>), start, 0).score
        : P \in { Q \in {lookahead_updates(i.E, i.f)} : ~Q.thrown /\ Len(Q.upd) > 0 },
          start \in 0 .. 2 }

C39_BoundsOnlyTighten ==
    [][(call.fn = "bounds" /\ call'.fn = "bounds") =>
          \A n \in (0 - MaxBound - 2) .. (MaxBound + 2) :
              ~in_bounds_of(call.b, n) => ~in_bounds_of(call'.b, n)]_vars

(***************************************************************************)
(* viable::intersect on the circular list of unit intervals of a variable. *)
(* The list is the sequence of its entries from the head m_units[v] along  *)
(* next(); an interval is full or the half-open [lo, hi) modulo ModSize,   *)
(* wrapping around when lo > hi and empty when lo = hi.                    *)
(***************************************************************************)
ModSize == 5
Full == [full |-> TRUE, lo |-> 0, hi |-> 0]
Proper(lo, hi) == [full |-> FALSE, lo |-> lo, hi |-> hi]
Intervals == {Full} \cup {Proper(lo, hi) : lo \in 0 .. ModSize - 1, hi \in 0 .. ModSize - 1}

is_full(i) == i.full
is_currently_empty(i) == ~i.full /\ i.lo = i.hi

\* the values of an interval
Members(i) ==
    IF i.full THEN 0 .. ModSize - 1
    ELSE IF i.lo <= i.hi THEN {x \in 0 .. ModSize - 1 : i.lo <= x /\ x < i.hi}
    ELSE {x \in 0 .. ModSize - 1 : x >= i.lo \/ x < i.hi}

\* a.contains(b)
contains(a, b) == Members(b) \subseteq Members(a)

\* e->remove_from(m_units[v], e) for the entry at position e of a list with
\* more than one entry: the head moves to the next entry when e is the head
remove_from(L, e) == SubSeq(L, 1, e - 1) \o SubSeq(L, e + 1, Len(L))

\* e->insert_before(ne) for the entry at position e; when e is the head the
\* new entry becomes the head
insert_before(L, e, ne) == SubSeq(L, 1, e - 1) \o <<ne>> \o SubSeq(L, e, Len(L))

VDone(L, r, removed) == [done |-> TRUE, L |-> L, r |-> r, e |-> 0, removed |-> removed]
VCont(L, e, removed) == [done |-> FALSE, L |-> L, r |-> FALSE, e |-> e, removed |-> removed]

\* while (ne->interval.contains(e->interval)): remove e and go on with its
\* successor; position 1 is first, which follows the head
RECURSIVE strip(_, _, _, _)
strip(L, e, ne, removed) ==
    IF ~contains(ne, L[e]) THEN VCont(L, e, removed)
    ELSE IF Len(L) = 1 THEN VDone(<<ne>>, TRUE, removed + 1)
    ELSE LET L1 == remove_from(L, e)
         IN strip(L1, IF e > Len(L1) THEN 1 ELSE e, ne, removed + 1)

\* a variant of the loop that leaves the entries covered by ne in the list
RECURSIVE walk_mut(_, _, _, _)
walk_mut(L, e, ne, removed) ==
    IF contains(L[e], ne) THEN VDone(L, FALSE, removed)
    ELSE IF L[e].lo > ne.lo
         THEN IF contains(L[Len(L)], ne) THEN VDone(L, FALSE, removed)
              ELSE VDone(insert_before(L, e, ne), TRUE, removed)
         ELSE IF e + 1 > Len(L) THEN VDone(Append(L, ne), TRUE, removed)
         ELSE walk_mut(L, e + 1, ne, removed)

\* the do-while loop of intersect from the entry at position e
RECURSIVE walk(_, _, _, _)
walk(L, e, ne, removed) ==
    IF contains(L[e], ne) THEN VDone(L, FALSE, removed)
    ELSE LET s == strip(L, e, ne, removed)
         IN IF s.done THEN s
            ELSE IF s.L[s.e].lo > ne.lo
            THEN IF contains(s.L[Len(s.L)], ne) THEN VDone(s.L, FALSE, s.removed)
                 ELSE VDone(insert_before(s.L, s.e, ne), TRUE, s.removed)
            ELSE IF s.e + 1 > Len(s.L)
            THEN \* e == first again: append to the end of the list
                 VDone(Append(s.L, ne), TRUE, s.removed)
            ELSE walk(s.L, s.e + 1, ne, s.removed)

intersect_mut(L, ne) ==
    IF L # <<>> /\ is_full(L[1]) THEN VDone(L, FALSE, 0)
    ELSE IF is_currently_empty(ne) THEN VDone(L, FALSE, 0)
    ELSE IF L = <<>> THEN VDone(<<ne>>, TRUE, 0)
    ELSE walk_mut(L, 1, ne, 0)

\* viable::intersect(v, ne) on the list L of v
intersect(L, ne) ==
    IF L # <<>> /\ is_full(L[1]) THEN VDone(L, FALSE, 0)
    ELSE IF is_currently_empty(ne) THEN VDone(L, FALSE, 0)
    ELSE IF L = <<>> THEN VDone(<<ne>>, TRUE, 0)
    ELSE walk(L, 1, ne, 0)

\* viable::well_formed(e) for the head of the list L
RECURSIVE well_formed_from(_, _)
well_formed_from(L, e) ==
    LET n == IF e = Len(L) THEN 1 ELSE e + 1
    IN IF is_full(L[e]) THEN Len(L) = 1
       ELSE IF is_currently_empty(L[e]) THEN FALSE
       ELSE IF n # e /\ contains(L[e], L[n]) THEN FALSE
       ELSE IF n = 1 THEN TRUE
       ELSE IF L[e].lo >= L[n].lo THEN FALSE
       ELSE well_formed_from(L, n)

well_formed(L) == L = <<>> \/ well_formed_from(L, 1)

NoInterval == Proper(0, 0)

Intersect(ne) ==
    /\ call.fn = "viable"
    /\ \E o \in {intersect(call.units, ne)} :
          call' = [call EXCEPT !.units = o.L, !.ne = ne, !.ret = o.r,
                               !.removed = o.removed, !.calls = 1]

InitViable ==
    /\ value = InitValue
    /\ args_value = InitArgs
    /\ assign = [bv \in Atoms |-> is_true(m_ineqs[bv].m_op, InitArgs[bv])]
    /\ m_last_var = NoVar
    /\ m_last_delta = 0
    /\ num_steps = 0
    /\ tabu_until = [v \in Vars |-> 0]
    /\ escaped = FALSE
    /\ last_op = Op("init", NoVar, FALSE, "true")
    /\ gs = NoSearch
    /\ call = [fn |-> "viable", units |-> <<>>, ne |-> NoInterval, ret |-> FALSE,
               removed |-> 0, calls |-> 0]

NextViable == \E ne \in Intervals : Intersect(ne) /\ EngineIdle

SpecViable == InitViable /\ [][NextViable]_vars

\* C40: after any sequence of calls of intersect(v, ne), whatever they
\* return, the list of v is well formed: lower bounds strictly ascending from
\* the head, no interval containing its successor, none empty, and a full
\* interval only as the sole entry
C40_UnitsWellFormed ==
    call.fn = "viable" =>
        /\ well_formed(call.units)
        /\ \A i \in DOMAIN call.units : \A j \in DOMAIN call.units :
              i < j => call.units[i].lo < call.units[j].lo
        /\ \A i \in DOMAIN call.units :
              /\ ~is_currently_empty(call.units[i])
              /\ ~contains(call.units[i], call.units[(i % Len(call.units)) + 1])
                    \/ Len(call.units) = 1
              /\ is_full(call.units[i]) => Len(call.units) = 1

\* a call that has removed an entry covered by the new interval and has put
\* the new interval between two others
C40_Witness ==
    /\ call.fn = "viable" /\ call.ret /\ call.removed > 0
    /\ Len(call.units) >= 3
    /\ call.units[1] # call.ne /\ call.units[Len(call.units)] # call.ne

====
